---- MODULE Spec2Model ----
(***************************************************************************)
(* Model of the OAuth2 authenticator of calgo (package auth): GetToken,    *)
(* the refresh step, the interactive authorization flow with its loopback  *)
(* callback server, and the token file.                                    *)
(*                                                                         *)
(* Time is counted in seconds.  A time of 0 stands for Go's zero           *)
(* time.Time (year 1), which lies before every instant the clock reaches.  *)
(***************************************************************************)
EXTENDS Integers, Sequences, FiniteSets, Bags, TLC

\* ---------------------------------------------------------------- bounds
\* Number of GetToken calls made on the Authenticator in one behaviour.
MaxCalls == 2
\* Number of callback requests the listener receives during one flow (in
\* FlowSpec; one fewer in Spec, which follows several calls).
MaxRequests == 2
\* The clock's first value, and the last instant the clock may reach.
StartTime == 100
MaxTime == 4000
\* Lifetime of a token issued by the provider (expires_in).
TokenLifetime == 3600

\* ------------------------------------------------------ program constants
\* time.After(5 * time.Minute) in authenticate.
AuthTimeout == 300
\* golang.org/x/oauth2: Token.Valid treats a token as expired expiryDelta
\* (10 s) before its expiry.
ExpiryDelta == 10

\* Deadlines a caller's context may carry, in seconds from the call.
CtxTimeouts == {60, AuthTimeout}
\* Ports the OS may assign to the listener on localhost:0.
Ports == {49152}
\* Queries of the callback requests: the code and error parameters, each
\* absent or present with a value (which may be empty).
Absent == "<absent>"
Queries ==
    {[code |-> Absent, error |-> Absent],
     [code |-> Absent, error |-> "access_denied"],
     [code |-> Absent, error |-> ""],
     [code |-> "", error |-> Absent],
     [code |-> "code-A", error |-> Absent],
     [code |-> "code-B", error |-> Absent],
     [code |-> "code-A", error |-> "access_denied"]}

\* An oauth2.Token: AccessToken, RefreshToken, TokenType, and Expiry as its
\* instant (0 = the zero time) with mono telling whether the time.Time carries
\* a monotonic clock reading (as time.Now() gives it).
NoToken == [access |-> "", refresh |-> "", type |-> "", expiry |-> 0, mono |-> FALSE]
NoResult == [kind |-> "none", token |-> NoToken, err |-> "", msg |-> ""]
TokenResult(t) == [kind |-> "token", token |-> t, err |-> "", msg |-> ""]
ErrResult(e, m) == [kind |-> "error", token |-> NoToken, err |-> e, msg |-> m]

\* Contents the token file may have when the process starts.
InitTokens ==
    [access : {"cached"}, refresh : {"rt-old"}, type : {"Bearer"},
     expiry : {0, StartTime, StartTime + 5, StartTime + TokenLifetime},
     mono : {FALSE}]
        \cup {[access |-> "", refresh |-> "", type |-> "",
               expiry |-> StartTime + TokenLifetime, mono |-> FALSE]}

\* What encoding/json writes for a Go string: the string itself (escapes are
\* undone by the reader), with every byte that is not valid UTF-8 replaced by
\* U+FFFD.  "tok<FF>" stands for a string with such a byte.
ToValidUTF8(s) == IF s = "tok<FF>" THEN "tok<U+FFFD>" ELSE s

\* time.Time.MarshalJSON and UnmarshalJSON: the RFC 3339 text holds the
\* instant, to the nanosecond, and no monotonic clock reading.
TimeMarshalJSON(expiry, mono) == [instant |-> expiry]
TimeUnmarshalJSON(text) == [expiry |-> text.instant, mono |-> FALSE]

\* json.MarshalIndent(token, "", "  "): the members of the JSON object;
\* token_type and refresh_token are omitted when empty.
MarshalNoRefreshToken(t) ==
    [k \in {"access_token", "expiry"}
            \cup (IF t.type # "" THEN {"token_type"} ELSE {}) |->
       CASE k = "access_token" -> ToValidUTF8(t.access)
         [] k = "token_type" -> ToValidUTF8(t.type)
         [] OTHER -> TimeMarshalJSON(t.expiry, t.mono)]
Marshal(t) ==
    [k \in {"access_token", "expiry"}
            \cup (IF t.type # "" THEN {"token_type"} ELSE {})
            \cup (IF t.refresh # "" THEN {"refresh_token"} ELSE {}) |->
       CASE k = "access_token" -> ToValidUTF8(t.access)
         [] k = "token_type" -> ToValidUTF8(t.type)
         [] k = "refresh_token" -> ToValidUTF8(t.refresh)
         [] OTHER -> TimeMarshalJSON(t.expiry, t.mono)]

\* json.Unmarshal(data, &token): a member that is missing leaves the zero
\* value.
Unmarshal(doc) ==
    LET str(k) == IF k \in DOMAIN doc THEN doc[k] ELSE ""
        time == IF "expiry" \in DOMAIN doc THEN TimeUnmarshalJSON(doc["expiry"])
                ELSE [expiry |-> 0, mono |-> FALSE]
    IN [access |-> str("access_token"), refresh |-> str("refresh_token"),
        type |-> str("token_type"), expiry |-> time.expiry, mono |-> time.mono]

\* The permission bits of the token file: those saveToken passes to
\* os.WriteFile, and looser ones a file may have from elsewhere.
OwnerOnly == "0600"
WorldReadable == "0644"
WriteOnly == "0200"

\* The token file: absent, not parseable as JSON, or a JSON object (held as
\* the token it denotes); and its permission bits.
AbsentFile == [state |-> "absent", token |-> NoToken, mode |-> ""]
CorruptFile == [state |-> "corrupt", token |-> NoToken, mode |-> OwnerOnly]
TokenFile(t) == [state |-> "token", token |-> Unmarshal(Marshal(t)), mode |-> OwnerOnly]
InitFiles == {AbsentFile, CorruptFile} \cup {TokenFile(t) : t \in InitTokens}

VARIABLES
    config,           \* a.config: loaded?, RedirectURL (0 = as in the descriptor)
    credentialsFile,  \* the descriptor file: "ok", "missing", "malformed"
    tokenFile,        \* the token file at a.tokenPath
    now,              \* the clock
    calls,            \* GetToken calls begun so far
    pc,               \* position of the GetToken call in progress
    ctx,              \* the caller's context of the call in progress
    token,            \* the token held by the call (loaded, or exchanged)
    server,           \* the callback server of the flow: state and port
    codeChan,         \* buffered channel, capacity 1
    errChan,          \* buffered channel, capacity 1
    requests,         \* requests the listener of the flow has accepted
    pending,          \* bag of the queries whose handler has yet to send
    lastResp,         \* what the handler that finished last did
    serve,            \* the goroutine running server.Serve
    timer,            \* instant at which time.After fires (0 = no timer)
    code,             \* the code received by the select
    result,           \* what the last GetToken call returned
    h,                \* history of the call in progress (observations only)
    states,           \* the state values of the authorization URLs built so far
    store,            \* what the last operation on the token store did
    tasks,            \* the GetToken calls that run concurrently on the Authenticator
    parse,            \* the calls of ParseTime and ParseDuration: inputs and results
    event,            \* the last Client.CreateEvent call: params, request, reply, result
    settings          \* the last config.Load call: the sources and the Config

vars == <<config, credentialsFile, tokenFile, now, calls, pc, ctx, token,
          server, codeChan, errChan, requests, pending, lastResp, serve, timer,
          code, result, h,
          states, store, tasks, parse, event, settings>>

\* ------------------------------------------------------------ oauth2.Token
\* time.Time.IsZero
IsZero(t) == t = 0

\* oauth2.Token.Valid as called by GetToken: a non-empty access token that has
\* not expired; a zero expiry never expires.
ValidZeroExpiryExpired(t, at) ==
    /\ t.access # ""
    /\ ~IsZero(t.expiry)
    /\ ~(t.expiry - ExpiryDelta < at)
ValidIgnoringExpiry(t, at) == t.access # ""
ValidIgnoringAccess(t, at) == IsZero(t.expiry) \/ ~(t.expiry - ExpiryDelta < at)
Valid(t, at) ==
    /\ t.access # ""
    /\ (IsZero(t.expiry) \/ ~(t.expiry - ExpiryDelta < at))

\* ------------------------------------------------------------- token store
\* loadToken: os.ReadFile, which fails for a file that is not there or that
\* the process may not read, then json.Unmarshal.
loadTokenErrorDropped(file) == [ok |-> TRUE, token |-> file.token]
loadToken(file) ==
    CASE file.state = "absent" -> [ok |-> FALSE, token |-> NoToken]
      [] file.mode = WriteOnly -> [ok |-> FALSE, token |-> NoToken]
      [] file.state = "corrupt" -> [ok |-> FALSE, token |-> NoToken]
      [] OTHER -> [ok |-> TRUE, token |-> file.token]

\* How the write of saveToken can end: done; refused (the file cannot be
\* opened for writing, or the token cannot be marshalled); or failed after
\* the file was created or truncated.
WriteOutcomes == {"written", "refused", "truncated"}

\* saveToken: json.MarshalIndent then os.WriteFile(path, data, 0600), which
\* creates the file with these permission bits, or truncates the file that
\* exists and leaves its bits as they are; wrote is the outcome of the write.
saveToken(file, t, wrote) ==
    LET mode == IF file.state = "absent" THEN OwnerOnly ELSE file.mode
    IN CASE wrote = "written" -> [TokenFile(t) EXCEPT !.mode = mode]
         [] wrote = "truncated" -> [CorruptFile EXCEPT !.mode = mode]
         [] OTHER -> file

\* ------------------------------------------------------------------ history
NoHistory ==
    [fileAtLoad |-> AbsentFile, nowAtLoad |-> 0, ctxDoneAtCall |-> FALSE,
     via |-> "none", refreshTried |-> FALSE, refreshErr |-> "",
     refreshed |-> NoToken, listeners |-> 0, browser |-> 0, exchanges |-> 0,
     saves |-> 0, saved |-> FALSE, fired |-> <<>>, firedBeforeWait |-> {},
     waitStart |-> 0, resolutions |-> 0, resolvedBy |-> "none", resolvedAt |-> 0,
     closes |-> 0, written |-> {}]

NoResp == [code |-> Absent, error |-> Absent, chan |-> "", value |-> "",
           other |-> FALSE, status |-> 0, contentType |-> ""]

\* No operation on the token store observed yet.  A record of store tells the
\* operation made last (op, ok), its argument and results (arg, out, has), the
\* file before it (before), the token of the last save that succeeded (saved),
\* whether the file still holds what that save wrote (intact), and the
\* operation made before this one (prevOp, prevOk).
NoStore == [op |-> "none", ok |-> FALSE, arg |-> NoToken, out |-> NoToken,
            has |-> FALSE, before |-> AbsentFile, saved |-> NoToken,
            intact |-> FALSE, prevOp |-> "none", prevOk |-> FALSE]

\* A time.Location: its name and the offsets from UTC, in seconds, before and
\* from the instant at of its one transition (NoTransition: the offset never
\* changes).  A time.Time is the Unix time and the location.
NoTransition == 0
Forever == 2147483647
Location(name, before, at, after) ==
    [name |-> name, before |-> before, at |-> at, after |-> after]
UTC == Location("UTC", 0, NoTransition, 0)
\* time.Time{}, returned with every error.
TimeZero == [unix |-> -Forever, loc |-> UTC]

\* The value of a variable in a specification that has no operation on it.
Idle == <<>>

\* No call of ParseTime or ParseDuration yet, and nothing to parse.  A record
\* of parse holds the arguments (input, timezone; text for ParseDuration),
\* the TZ variable, the clock, the results of the last ParseTime (out) and of
\* the one before, with its arguments (prev), and the same for ParseDuration
\* (span, prevSpan); stage is "none" in a result no call has given yet, and
\* tried lists the stages a call went through.
NoOut == [ok |-> FALSE, time |-> TimeZero, err |-> "", msg |-> "",
          stage |-> "none", tried |-> <<>>]
NoSpan == [ok |-> FALSE, value |-> 0, msg |-> "", stage |-> "none"]
NoParse == [input |-> "", clock |-> TimeZero, timezone |-> "", tz |-> "",
            out |-> NoOut,
            prev |-> [timezone |-> "", tz |-> "", out |-> NoOut],
            text |-> "", span |-> NoSpan,
            prevSpan |-> [text |-> "", span |-> NoSpan]]

\* The concurrent callers of GetToken and the position each one is at: none of
\* them has called yet.  port is the port of the task's listener, url the
\* redirect URI in its authorization URL, exchange the one in its exchange
\* (0 = none yet).
Tasks == {1, 2}
NoTasks == [t \in Tasks |-> [pc |-> "idle", port |-> 0, url |-> 0,
                             exchange |-> 0, result |-> "none"]]

\* The state after NewAuthenticator, with n calls counted as made and the
\* token file one of files.
InitState(n, files) ==
    /\ config = [loaded |-> FALSE, RedirectURL |-> 0]
    /\ credentialsFile \in {"ok", "missing", "malformed"}
    /\ tokenFile \in files
    /\ now = StartTime
    /\ calls = n
    /\ pc = "idle"
    /\ ctx = [done |-> FALSE, err |-> "", deadline |-> 0]
    /\ token = NoToken
    /\ server = [state |-> "none", port |-> 0]
    /\ codeChan = <<>>
    /\ errChan = <<>>
    /\ requests = 0
    /\ pending = EmptyBag
    /\ lastResp = NoResp
    /\ serve = "none"
    /\ timer = 0
    /\ code = ""
    /\ result = NoResult
    /\ h = NoHistory
    /\ states = <<>>
    /\ store = NoStore

Init == InitState(0, InitFiles) /\ parse = Idle /\ event = Idle /\ settings = Idle /\ tasks = Idle


\* ------------------------------------------------------------ LoadCredentials
\* LoadCredentials: os.ReadFile, then google.ConfigFromJSON.
LoadCredentials(file) ==
    CASE file = "missing" -> ErrResult("ErrReadCredentials", "failed to read credentials file")
      [] file = "malformed" -> ErrResult("ErrInvalidCredentials", "invalid credentials file format")
      [] OTHER -> NoResult

\* ------------------------------------------------------------------ GetToken
\* The branch GetToken takes after loadToken: return the cached token, try a
\* refresh, or authenticate.
GetTokenBranchRefreshFirst(loaded, at) ==
    IF ~loaded.ok THEN "authenticate" ELSE "refresh"
GetTokenBranchNoRefresh(loaded, at) ==
    IF loaded.ok /\ Valid(loaded.token, at) THEN "cached" ELSE "authenticate"
GetTokenBranch(loaded, at) ==
    IF ~loaded.ok THEN "authenticate"
    ELSE IF Valid(loaded.token, at) THEN "cached"
    ELSE "refresh"

\* What GetToken does when the refresh failed with error rerr: it reports the
\* failure on stdout and goes on to authenticate.
RefreshFailedSurfaced(rerr) ==
    [next |-> "returned", result |-> ErrResult("ErrTokenRefreshFailed", rerr)]
RefreshFailed(rerr) == [next |-> "startServer", result |-> NoResult]

\* The context the caller passes: already cancelled or not, with a deadline dl
\* seconds ahead (0 = none).
NewContext(cancelled, dl) ==
    [done |-> cancelled, err |-> IF cancelled THEN "Canceled" ELSE "",
     deadline |-> IF dl = 0 THEN 0 ELSE now + dl]

GetToken(cancelled, dl) ==
    /\ pc = "idle"
    /\ calls < MaxCalls
    /\ calls' = calls + 1
    /\ ctx' = NewContext(cancelled, dl)
    /\ LET cred == IF config.loaded THEN NoResult ELSE LoadCredentials(credentialsFile)
           loaded == loadToken(tokenFile)
           branch == GetTokenBranch(loaded, now)
           hist == [NoHistory EXCEPT !.ctxDoneAtCall = cancelled]
       IN IF cred.kind = "error"
          THEN /\ result' = cred
               /\ pc' = "returned"
               /\ h' = [hist EXCEPT !.via = "credentials"]
               /\ UNCHANGED <<config, token>>
          ELSE /\ config' = [config EXCEPT !.loaded = TRUE]
               /\ token' = loaded.token
               /\ h' = [hist EXCEPT !.fileAtLoad = tokenFile, !.nowAtLoad = now,
                                    !.via = IF branch = "cached" THEN "cache" ELSE "none"]
               /\ CASE branch = "cached" ->
                         /\ result' = TokenResult(loaded.token)
                         /\ pc' = "returned"
                    [] branch = "refresh" ->
                         /\ result' = NoResult
                         /\ pc' = "refresh"
                    [] OTHER ->
                         /\ result' = NoResult
                         /\ pc' = "startServer"
    /\ server' = [state |-> "none", port |-> 0]
    /\ serve' = "none"
    /\ timer' = 0
    /\ code' = ""
    /\ codeChan' = <<>>
    /\ errChan' = <<>>
    /\ requests' = 0
    /\ pending' = EmptyBag
    /\ lastResp' = NoResp
    /\ UNCHANGED <<credentialsFile, states, store, parse, event, settings, tasks, tokenFile, now>>

\* The token the token endpoint issues on a refresh: the refresh token is kept
\* when the response carries none.
RefreshedToken(old) ==
    [access |-> "refreshed", refresh |-> old.refresh, type |-> "Bearer",
     expiry |-> now + TokenLifetime, mono |-> TRUE]

\* tokenSource.Token() on the invalid token, then saveToken and return, or the
\* fall-through to authenticate.
Refresh(netOk, wrote) ==
    /\ pc = "refresh"
    /\ LET contacted == token.refresh # ""
           ok == contacted /\ ~ctx.done /\ netOk
           rerr == IF ~contacted THEN "oauth2: token expired and refresh token is not set"
                   ELSE "oauth2: cannot fetch token"
           new == RefreshedToken(token)
           hist == [h EXCEPT !.refreshTried = TRUE]
       IN IF ok
          THEN /\ tokenFile' = saveToken(tokenFile, new, wrote)
               /\ token' = new
               /\ result' = TokenResult(new)
               /\ pc' = "returned"
               /\ h' = [hist EXCEPT !.via = "refresh", !.refreshed = new,
                                    !.saves = @ + 1, !.saved = (wrote = "written")]
          ELSE /\ result' = RefreshFailed(rerr).result
               /\ pc' = RefreshFailed(rerr).next
               /\ h' = [hist EXCEPT !.refreshErr = rerr,
                                    !.via = IF RefreshFailed(rerr).next = "returned"
                                            THEN "refresh" ELSE "none"]
               /\ UNCHANGED <<tokenFile, token>>
    /\ UNCHANGED <<config, credentialsFile, states, store, parse, event, settings, tasks, now, calls, ctx, server, codeChan,
                   errChan, requests, pending, lastResp, serve, timer, code>>


\* ------------------------------------------------------------- authenticate
Range(f) == {f[i] : i \in DOMAIN f}

\* An event of the flow (a code sent, an error sent, the context done, the
\* timer fired) is noted in the order of firing until the flow resolves.
Fired(hist, ev) ==
    IF hist.listeners > 0 /\ hist.resolvedBy = "none" /\ ev \notin Range(hist.fired)
    THEN [hist EXCEPT !.fired = Append(@, ev)]
    ELSE hist

\* The server as startCallbackServer returns it.
ServerClosedAtStart(p) == [state |-> "closed", port |-> p]
ServerStarted(p) == [state |-> "open", port |-> p]

\* defer server.Close(): runs on every return of authenticate once the server
\* was started; path names the return ("token" or "error").
CloseOnSuccessOnly(srv, path) ==
    IF path = "token" THEN [srv EXCEPT !.state = "closed"] ELSE srv
Close(srv, path) == [srv EXCEPT !.state = "closed"]

\* The state value passed to a.config.AuthCodeURL.
AuthCodeState == "state-token"

\* a.config.RedirectURL = fmt.Sprintf("http://localhost:%d", port)
RedirectURL(port) == port

\* The return of authenticate with result res: the deferred Close runs, and
\* Serve, if still serving, ends with ErrServerClosed (sv is the position of
\* the Serve goroutine after the step that made the flow return).
Returned(res, path, hist, sv) ==
    /\ result' = res
    /\ pc' = "returned"
    /\ server' = Close(server, path)
    /\ serve' = IF sv = "serving" /\ server'.state = "closed" THEN "exited" ELSE sv
    /\ h' = [hist EXCEPT !.via = "interactive",
                         !.closes = IF server'.state = "closed" THEN @ + 1 ELSE @]

\* The branches of the select in authenticate: the result returned for the
\* event received (none for a code: the flow goes on to the exchange).
SelectOutcomeCtxAsAuthFailed(ev, payload, cerr) ==
    CASE ev = "code" -> NoResult
      [] ev = "error" -> ErrResult("ErrAuthenticationFailed", payload)
      [] ev = "ctx" -> ErrResult("ErrAuthenticationFailed", cerr)
      [] OTHER -> ErrResult("ErrAuthenticationFailed", "timeout waiting for authorization")
SelectOutcome(ev, payload, cerr) ==
    CASE ev = "code" -> NoResult
      [] ev = "error" -> ErrResult("ErrAuthenticationFailed", payload)
      [] ev = "ctx" -> ErrResult(cerr, "")
      [] OTHER -> ErrResult("ErrAuthenticationFailed", "timeout waiting for authorization")

\* The select receives event ev (with its payload) and the flow resolves.
Resolved(ev, payload, cerr, hist, sv) ==
    LET hh == [hist EXCEPT !.resolvedBy = ev, !.resolvedAt = now,
                           !.resolutions = @ + 1]
    IN IF ev = "code"
       THEN /\ code' = payload
            /\ pc' = "exchange"
            /\ result' = NoResult
            /\ h' = hh
            /\ serve' = sv
            /\ UNCHANGED server
       ELSE /\ code' = code
            /\ Returned(SelectOutcome(ev, payload, cerr), "error", hh, sv)

\* The start of authenticate, up to the select: startCallbackServer
\* (net.Listen on localhost:0, the handler, go Serve), the redirect URL, the
\* authorization URL and openBrowser (whose failure is only a warning).
StartCallbackServer(bound, p, opened) ==
    /\ pc = "startServer"
    /\ IF ~bound
       THEN /\ result' = ErrResult("ErrStartCallbackServer", "failed to start callback server")
            /\ pc' = "returned"
            /\ h' = [h EXCEPT !.via = "interactive"]
            /\ UNCHANGED <<server, serve, config, states>>
       ELSE /\ server' = ServerStarted(p)
            /\ states' = Append(states, AuthCodeState)
            /\ serve' = "serving"
            /\ config' = [config EXCEPT !.RedirectURL = RedirectURL(p)]
            /\ pc' = "select"
            /\ result' = NoResult
            /\ h' = [h EXCEPT !.listeners = @ + 1,
                              !.browser = @ + 1,
                              !.fired = IF ctx.done THEN <<"ctx">> ELSE <<>>,
                              !.closes = IF server'.state = "closed" THEN @ + 1 ELSE @]
    /\ UNCHANGED <<credentialsFile, store, parse, event, settings, tasks, tokenFile, now, calls, ctx, token, codeChan,
                   errChan, requests, pending, lastResp, timer, code>>

\* The cases of the select that can proceed when the flow reaches it.
ReadyChannelsOnly ==
    (IF codeChan # <<>> THEN {"code"} ELSE {})
        \cup (IF errChan # <<>> THEN {"error"} ELSE {})
Ready ==
    (IF codeChan # <<>> THEN {"code"} ELSE {})
        \cup (IF errChan # <<>> THEN {"error"} ELSE {})
        \cup (IF ctx.done THEN {"ctx"} ELSE {})

\* The flow reaches the select: the timer is created; one of the cases that
\* are ready is taken, chosen arbitrarily; with none ready the flow blocks.
Select ==
    /\ pc = "select"
    /\ timer' = now + AuthTimeout
    /\ LET hist == [h EXCEPT !.firedBeforeWait = Ready, !.waitStart = now]
       IN IF Ready = {}
          THEN /\ pc' = "waiting"
               /\ h' = hist
               /\ UNCHANGED <<codeChan, errChan, server, serve, code, result>>
          ELSE \E ev \in Ready :
                 /\ codeChan' = IF ev = "code" THEN <<>> ELSE codeChan
                 /\ errChan' = IF ev = "error" THEN <<>> ELSE errChan
                 /\ Resolved(ev,
                             IF ev = "code" THEN Head(codeChan)
                             ELSE IF ev = "error" THEN Head(errChan) ELSE "",
                             ctx.err, hist, serve)
    /\ UNCHANGED <<config, credentialsFile, states, store, parse, event, settings, tasks, tokenFile, now, calls, ctx, token, requests,
                   pending, lastResp>>

\* The token the token endpoint issues for a code (offline access: with a
\* refresh token).
IssuedToken ==
    [access |-> "issued", refresh |-> "rt-new", type |-> "Bearer",
     expiry |-> now + TokenLifetime, mono |-> TRUE]

\* What authenticate does after a.config.Exchange, which gave token t (ok) or
\* an error: the result it returns, on which return path, the token file it
\* leaves, and whether it called saveToken and the token got written.
AfterExchangeSaveFirst(ok, file, t, wrote) ==
    [result |-> IF ok THEN TokenResult(t)
                ELSE ErrResult("ErrAuthenticationFailed", "exchange failed"),
     path |-> IF ok THEN "token" ELSE "error",
     file |-> saveToken(file, t, wrote), saves |-> 1, saved |-> (wrote = "written")]
AfterExchangeSaveFatal(ok, file, t, wrote) ==
    IF ok /\ wrote = "written"
    THEN [result |-> TokenResult(t), path |-> "token",
          file |-> saveToken(file, t, wrote), saves |-> 1, saved |-> TRUE]
    ELSE [result |-> ErrResult("ErrAuthenticationFailed",
                               IF ok THEN "failed to save token" ELSE "exchange failed"),
          path |-> "error",
          file |-> IF ok THEN saveToken(file, t, wrote) ELSE file,
          saves |-> IF ok THEN 1 ELSE 0, saved |-> FALSE]
AfterExchange(ok, file, t, wrote) ==
    IF ok
    THEN [result |-> TokenResult(t), path |-> "token",
          file |-> saveToken(file, t, wrote), saves |-> 1, saved |-> (wrote = "written")]
    ELSE [result |-> ErrResult("ErrAuthenticationFailed", "exchange failed"),
          path |-> "error", file |-> file, saves |-> 0, saved |-> FALSE]

\* The end of authenticate: a.config.Exchange(ctx, code), which fails when the
\* context is done or the endpoint refuses (ErrAuthenticationFailed); then
\* saveToken (a failure is only a warning) and the return of the token.
Exchange(netOk, wrote) ==
    /\ pc = "exchange"
    /\ LET ok == netOk /\ ~ctx.done
           after == AfterExchange(ok, tokenFile, IssuedToken, wrote)
       IN /\ token' = IF ok THEN IssuedToken ELSE token
          /\ tokenFile' = after.file
          /\ Returned(after.result, after.path,
                      [h EXCEPT !.exchanges = @ + 1, !.saves = @ + after.saves,
                                !.saved = after.saved], serve)
    /\ UNCHANGED <<config, credentialsFile, states, store, parse, event, settings, tasks, now, calls, ctx, codeChan,
                   errChan, requests, pending, lastResp, timer, code>>

\* ---------------------------------------------------------- callback server
\* r.URL.Query().Get(key): the parameter's value, "" when it is absent.
Get(v) == IF v = Absent THEN "" ELSE v

\* The handler's choice of channel and value from the query parameters c
\* (code) and e (error).
HandlerTargetErrorFirst(c, e) ==
    IF Get(e) # "" THEN [chan |-> "err", value |-> Get(e)]
    ELSE IF Get(c) = "" THEN [chan |-> "err", value |-> "no authorization code received"]
    ELSE [chan |-> "code", value |-> Get(c)]
HandlerTargetLiteralOnly(c, e) ==
    IF Get(c) = ""
    THEN [chan |-> "err", value |-> "no authorization code received"]
    ELSE [chan |-> "code", value |-> Get(c)]
HandlerTarget(c, e) ==
    IF Get(c) = ""
    THEN [chan |-> "err",
          value |-> IF Get(e) = "" THEN "no authorization code received" ELSE Get(e)]
    ELSE [chan |-> "code", value |-> Get(c)]

\* The handler's response: http.Error(w, ..., 400), or the HTML page with the
\* default status.
HandlerResponse(c) ==
    IF Get(c) = ""
    THEN [status |-> 400, contentType |-> "text/plain; charset=utf-8"]
    ELSE [status |-> 200, contentType |-> "text/html"]

\* A send on a channel of capacity 1 proceeds when the flow is blocked in the
\* select (it is handed the value) or the buffer is free.
CanSendUnbuffered(ch) == pc = "waiting"
CanSend(ch) ==
    \/ pc = "waiting"
    \/ ch = "code" /\ codeChan = <<>>
    \/ ch = "err" /\ errChan = <<>>

\* The send of v on channel ch; sv as in Returned.  The channels written to
\* in the flow are noted.
Deliver(ch, v, sv) ==
    LET ev == IF ch = "code" THEN "code" ELSE "error"
        hist == [Fired(h, ev) EXCEPT !.written = @ \cup {ch}]
    IN IF pc = "waiting"
       THEN /\ UNCHANGED <<codeChan, errChan>>
            /\ Resolved(ev, v, ctx.err, hist, sv)
       ELSE /\ codeChan' = IF ch = "code" THEN <<v>> ELSE codeChan
            /\ errChan' = IF ch = "err" THEN <<v>> ELSE errChan
            /\ h' = hist
            /\ serve' = sv
            /\ UNCHANGED <<pc, code, result, server>>

\* The handler for query q runs: it sends on codeChan or errChan and writes
\* its response.  lastResp notes the query, the channel sent on, the value
\* that arrived there, whether the other channel was left alone, and the
\* response.
Handle(q, sv) ==
    LET tgt == HandlerTarget(q.code, q.error)
        r == HandlerResponse(q.code)
    IN /\ CanSend(tgt.chan)
       /\ Deliver(tgt.chan, tgt.value, sv)
       /\ lastResp' =
            [code |-> q.code, error |-> q.error, chan |-> tgt.chan,
             value |-> IF tgt.chan = "code"
                       THEN (IF pc = "waiting" THEN code' ELSE Head(codeChan'))
                       ELSE (IF pc = "waiting" THEN result'.msg ELSE Head(errChan')),
             other |-> IF tgt.chan = "code" THEN errChan' = errChan
                       ELSE codeChan' = codeChan,
             status |-> r.status, contentType |-> r.contentType]

\* A request with query q reaches the listener.  Its handler runs to the end
\* when its send can proceed, and otherwise stays blocked in the send.
Request(q, limit) ==
    /\ pc # "returned"
    /\ server.state = "open"
    /\ requests < limit
    /\ requests' = requests + 1
    /\ IF CanSend(HandlerTarget(q.code, q.error).chan)
       THEN /\ Handle(q, serve)
            /\ UNCHANGED pending
       ELSE /\ pending' = pending (+) SetToBag({q})
            /\ UNCHANGED <<codeChan, errChan, lastResp, pc, code, result, server,
                           serve, h>>
    /\ UNCHANGED <<config, credentialsFile, states, store, parse, event, settings, tasks, tokenFile, now, calls, ctx, token, timer>>

\* A handler blocked in its send proceeds once the channel has room.
BlockedHandler(q) ==
    /\ pc # "returned"
    /\ BagIn(q, pending)
    /\ Handle(q, serve)
    /\ pending' = pending (-) SetToBag({q})
    /\ UNCHANGED <<config, credentialsFile, states, store, parse, event, settings, tasks, tokenFile, now, calls, ctx, token,
                   requests, timer>>

\* server.Serve returns an error other than ErrServerClosed, and its goroutine
\* sends the error on errChan, or blocks in the send.
ServeFail ==
    /\ pc # "returned"
    /\ serve = "serving"
    /\ server.state = "open"
    /\ IF CanSend("err")
       THEN Deliver("err", "accept error", "exited")
       ELSE /\ serve' = "sendErr"
            /\ UNCHANGED <<codeChan, errChan, pc, code, result, server, h>>
    /\ UNCHANGED <<config, credentialsFile, states, store, parse, event, settings, tasks, tokenFile, now, calls, ctx, token,
                   requests, pending, lastResp, timer>>

\* The Serve goroutine, blocked in its send, proceeds.
ServeSendErr ==
    /\ pc # "returned"
    /\ serve = "sendErr"
    /\ CanSend("err")
    /\ Deliver("err", "accept error", "exited")
    /\ UNCHANGED <<config, credentialsFile, states, store, parse, event, settings, tasks, tokenFile, now, calls, ctx, token,
                   requests, pending, lastResp, timer>>

\* ------------------------------------------------------------ context, time
\* The context becomes done with error cerr; a flow blocked in the select
\* receives from ctx.Done().
ContextDone(cerr) ==
    /\ pc \notin {"idle", "returned"}
    /\ ~ctx.done
    /\ ctx' = [ctx EXCEPT !.done = TRUE, !.err = cerr]
    /\ IF pc = "waiting"
       THEN Resolved("ctx", "", cerr, Fired(h, "ctx"), serve)
       ELSE /\ h' = Fired(h, "ctx")
            /\ UNCHANGED <<pc, code, result, server, serve>>
    /\ UNCHANGED <<config, credentialsFile, states, store, parse, event, settings, tasks, tokenFile, now, calls, token, codeChan,
                   errChan, requests, pending, lastResp, timer>>

\* The caller cancels the context.
CancelCtx == ContextDone("Canceled")

\* The context's deadline passes.
CtxDeadline ==
    /\ ctx.deadline # 0
    /\ now >= ctx.deadline
    /\ ContextDone("DeadlineExceeded")

\* The timer of time.After(5 * time.Minute) fires while the flow is blocked.
TimeoutFireNever == FALSE /\ UNCHANGED vars
TimeoutFire ==
    /\ pc = "waiting"
    /\ now >= timer
    /\ Resolved("timeout", "", ctx.err, Fired(h, "timeout"), serve)
    /\ UNCHANGED <<config, credentialsFile, states, store, parse, event, settings, tasks, tokenFile, now, calls, ctx, token,
                   codeChan, errChan, requests, pending, lastResp, timer>>

\* Instants at which a timer that has not fired yet is due.
PendingDue ==
    (IF pc = "waiting" THEN {timer} ELSE {})
        \cup (IF pc \notin {"idle", "returned"} /\ ~ctx.done /\ ctx.deadline # 0
              THEN {ctx.deadline} ELSE {})

\* Delays by which the clock advances when no timer is due earlier.
TickDelays == {TokenLifetime - 5}

\* Time passes, up to the next instant at which a timer is due: timers fire in
\* the order of their instants.  The steps of a call take no time; time
\* passes while the flow is blocked in the select, and between calls.
Tick(t) ==
    /\ pc \in {"idle", "waiting"}
    /\ t > now
    /\ t <= MaxTime
    /\ \A d \in PendingDue : t <= d
    /\ now' = t
    /\ UNCHANGED <<config, credentialsFile, states, store, parse, event, settings, tasks, tokenFile, calls, pc, ctx, token, server,
                   codeChan, errChan, requests, pending, lastResp, serve, timer, code, result, h>>

\* GetToken has returned: the caller holds the result, and the call's locals
\* (its context, token, code and timer) are gone.  The observations of the
\* call end here too, so every statement about a call is one about the state
\* in which pc = "returned".
ReturnToCaller ==
    /\ pc = "returned"
    /\ pc' = "idle"
    /\ ctx' = [done |-> FALSE, err |-> "", deadline |-> 0]
    /\ token' = NoToken
    /\ code' = ""
    /\ timer' = 0
    /\ h' = NoHistory
    /\ UNCHANGED <<config, credentialsFile, states, store, parse, event, settings, tasks, tokenFile, now, calls, server, codeChan,
                   errChan, requests, pending, lastResp, serve, result>>

\* The steps of the program and of its environment, with at most limit
\* callback requests in a flow.
Step(limit) ==
    \/ \E dl \in {0} \cup CtxTimeouts : GetToken(FALSE, dl)
    \/ GetToken(TRUE, 0)
    \/ \E netOk \in BOOLEAN, wrote \in WriteOutcomes : Refresh(netOk, wrote)
    \/ \E bound \in BOOLEAN, p \in Ports, opened \in BOOLEAN :
          StartCallbackServer(bound, p, opened)
    \/ Select
    \/ \E netOk \in BOOLEAN, wrote \in WriteOutcomes : Exchange(netOk, wrote)
    \/ \E q \in Queries : Request(q, limit)
    \/ \E q \in Queries : BlockedHandler(q)
    \/ ServeFail
    \/ ServeSendErr
    \/ CancelCtx
    \/ CtxDeadline
    \/ TimeoutFire
    \/ ReturnToCaller
    \/ \E t \in PendingDue \cup (IF pc = "idle" /\ calls > 0 THEN {now + d : d \in TickDelays} ELSE {}) :
          Tick(t)

\* Spec: MaxCalls calls in a row on one Authenticator, from every initial
\* token file, with MaxRequests - 1 callback requests in each flow.
Next == Step(MaxRequests - 1)

Spec == Init /\ [][Next]_vars

\* FlowSpec: the last call of such a row, with MaxRequests callback requests
\* in its flow.
FlowInit ==
    /\ InitState(MaxCalls - 1,
                 {AbsentFile,
                  TokenFile([access |-> "cached", refresh |-> "rt-old",
                             type |-> "Bearer", expiry |-> StartTime,
                             mono |-> FALSE])})
    /\ credentialsFile = "ok"
    /\ parse = Idle /\ event = Idle /\ settings = Idle /\ tasks = Idle

FlowNext == Step(MaxRequests)

FlowSpec == FlowInit /\ [][FlowNext]_vars

\* WaitSpec: the flows of FlowSpec in which time does not stop: the clock
\* goes on to the next instant a timer is due at, and a timer or a deadline
\* that is due fires (the runtime wakes the select).
Advance == \E t \in PendingDue : Tick(t)

WaitFairness ==
    WF_vars(Advance) /\ WF_vars(TimeoutFire) /\ WF_vars(CtxDeadline)

WaitSpec == FlowInit /\ [][FlowNext]_vars /\ WaitFairness

\* ------------------------------------------------- token store operations
\* ClearToken: os.Remove, whose error is dropped when it says the file does
\* not exist; removed tells whether the file system lets an existing file go.
ClearTokenStrict(file, removed) ==
    IF file.state # "absent" /\ removed THEN [ok |-> TRUE, file |-> AbsentFile]
    ELSE [ok |-> FALSE, file |-> file]
ClearToken(file, removed) ==
    CASE file.state = "absent" -> [ok |-> TRUE, file |-> file]
      [] removed -> [ok |-> TRUE, file |-> AbsentFile]
      [] OTHER -> [ok |-> FALSE, file |-> file]

\* HasSavedToken: os.Stat returned no error; reached tells whether os.Stat can
\* get to the path (it cannot through a directory it may not search).
HasSavedToken(file, reached) == file.state # "absent" /\ reached

\* Tokens handed to saveToken: one as the token endpoint gives it, one with
\* every field set and a wall-clock expiry, one with only an access token, and
\* one whose access token holds a byte that is not valid UTF-8.
StoreTokens ==
    {IssuedToken,
     [access |-> "access-123", refresh |-> "refresh-456", type |-> "Bearer",
      expiry |-> StartTime + TokenLifetime, mono |-> FALSE],
     [access |-> "access-only", refresh |-> "", type |-> "", expiry |-> 0,
      mono |-> FALSE],
     [access |-> "tok<FF>", refresh |-> "refresh-456", type |-> "Bearer",
      expiry |-> StartTime + TokenLifetime, mono |-> FALSE]}

\* Token files the store may find: none, one that cannot be parsed, and one
\* holding a token, each with owner-only or looser permission bits.
StoreFiles ==
    {AbsentFile}
        \cup {[f EXCEPT !.mode = m] :
                 f \in {CorruptFile,
                        TokenFile([access |-> "cached", refresh |-> "rt-old",
                                   type |-> "Bearer", expiry |-> StartTime,
                                   mono |-> FALSE])},
                 m \in {OwnerOnly, WorldReadable}}

\* The variables the token store operations leave alone.
flowVars == <<config, credentialsFile, now, calls, pc, ctx, token, server,
              codeChan, errChan, requests, pending, lastResp, serve, timer,
              code, result, h, states, tasks, parse, event,
              settings>>

\* a.saveToken(t).
StoreSave(t, wrote) ==
    /\ pc = "idle"
    /\ tokenFile' = saveToken(tokenFile, t, wrote)
    /\ store' = [op |-> "save", ok |-> (wrote = "written"), arg |-> t,
                 out |-> NoToken, has |-> FALSE, before |-> tokenFile,
                 saved |-> IF wrote = "written" THEN t ELSE store.saved,
                 intact |-> CASE wrote = "written" -> TRUE
                              [] wrote = "truncated" -> FALSE
                              [] OTHER -> store.intact,
                 prevOp |-> store.op, prevOk |-> store.ok]
    /\ UNCHANGED flowVars

\* a.loadToken(); readable tells whether os.ReadFile may read an existing
\* file.
StoreLoad(readable) ==
    LET loaded == IF readable THEN loadToken(tokenFile)
                  ELSE [ok |-> FALSE, token |-> NoToken]
    IN /\ pc = "idle"
       /\ store' = [store EXCEPT !.op = "load", !.ok = loaded.ok,
                                 !.arg = NoToken, !.out = loaded.token,
                                 !.has = FALSE, !.before = tokenFile,
                                 !.prevOp = store.op, !.prevOk = store.ok]
       /\ UNCHANGED <<tokenFile, flowVars>>

\* a.ClearToken().
StoreClear(removed) ==
    LET cleared == ClearToken(tokenFile, removed)
    IN /\ pc = "idle"
       /\ tokenFile' = cleared.file
       /\ store' = [store EXCEPT !.op = "clear", !.ok = cleared.ok,
                                 !.arg = NoToken, !.out = NoToken,
                                 !.has = FALSE, !.before = tokenFile,
                                 !.intact = @ /\ cleared.file = tokenFile,
                                 !.prevOp = store.op, !.prevOk = store.ok]
       /\ UNCHANGED flowVars

\* a.HasSavedToken().
StoreHas(reached) ==
    /\ pc = "idle"
    /\ store' = [store EXCEPT !.op = "has", !.ok = TRUE, !.arg = NoToken,
                              !.out = NoToken,
                              !.has = HasSavedToken(tokenFile, reached),
                              !.before = tokenFile,
                              !.prevOp = store.op, !.prevOk = store.ok]
    /\ UNCHANGED <<tokenFile, flowVars>>

\* StoreSpec: any sequence of operations on the token store of one
\* Authenticator, from every token file it may find.
StoreInit ==
    InitState(0, StoreFiles) /\ credentialsFile = "ok" /\ parse = Idle /\ event = Idle /\ settings = Idle /\ tasks = Idle

StoreNext ==
    \/ \E t \in StoreTokens, wrote \in WriteOutcomes : StoreSave(t, wrote)
    \/ \E readable \in BOOLEAN : StoreLoad(readable)
    \/ \E removed \in BOOLEAN : StoreClear(removed)
    \/ \E reached \in BOOLEAN : StoreHas(reached)

StoreSpec == StoreInit /\ [][StoreNext]_vars

\* SessionSpec: MaxCalls calls of GetToken in a row on one Authenticator, with
\* one callback request at most in a flow and with calls of ClearToken
\* before and between the calls; the token file found may be
\* absent, unparseable, or hold a token that is valid or has expired, and
\* may be one the process can write but not read.
ExpiredToken ==
    [access |-> "cached", refresh |-> "rt-old", type |-> "Bearer",
     expiry |-> StartTime, mono |-> FALSE]
SessionFiles ==
    {AbsentFile, CorruptFile, TokenFile(ExpiredToken),
     [TokenFile(ExpiredToken) EXCEPT !.mode = WriteOnly],
     TokenFile([ExpiredToken EXCEPT !.expiry = StartTime + TokenLifetime])}

SessionInit ==
    /\ InitState(0, SessionFiles)
    /\ parse = Idle /\ event = Idle /\ settings = Idle /\ tasks = Idle

\* a.ClearToken() before or between the calls; store tells that the last
\* operation on the token store was a ClearToken, and whether it succeeded.
SessionClear(removed) ==
    /\ pc = "idle"
    /\ tokenFile' = ClearToken(tokenFile, removed).file
    /\ store' = [NoStore EXCEPT !.op = "clear",
                                !.ok = ClearToken(tokenFile, removed).ok]
    /\ UNCHANGED flowVars

SessionNext ==
    \/ Step(1)
    \/ \E removed \in BOOLEAN : SessionClear(removed)

SessionSpec == SessionInit /\ [][SessionNext]_vars

\* ------------------------------------------------- concurrent GetToken calls
\* Ports the OS may assign to the listeners of flows that run at the same
\* time.
RacePorts == {49152, 49153}

\* The ports of the listeners open now.
OpenPorts == {tasks[t].port : t \in {u \in Tasks : tasks[u].pc \in
                  {"setRedirect", "authURL", "select", "exchange"}}}

\* GetToken up to the call of authenticate: a.config == nil is tested, then
\* the token file is loaded.
RaceGetToken(t) ==
    /\ tasks[t].pc = "idle"
    /\ LET branch == GetTokenBranch(loadToken(tokenFile), now)
       IN tasks' = [tasks EXCEPT ![t].pc =
                       IF ~config.loaded THEN "load"
                       ELSE IF branch = "cached" THEN "done"
                       ELSE "startServer",
                    ![t].result = IF config.loaded /\ branch = "cached"
                                  THEN "cached" ELSE "none"]
    /\ UNCHANGED <<config, tokenFile, store, parse, event, settings, credentialsFile, now, calls, pc,
                   ctx, token, server, codeChan, errChan, requests, pending,
                   lastResp, serve, timer, code, result, h, states>>

\* LoadCredentials by a task that found a.config nil: a.config = config, a new
\* configuration read from the descriptor; then the token file is loaded.
RaceLoadCredentials(t) ==
    /\ tasks[t].pc = "load"
    /\ config' = [loaded |-> TRUE, RedirectURL |-> 0]
    /\ LET branch == GetTokenBranch(loadToken(tokenFile), now)
       IN tasks' = [tasks EXCEPT ![t].pc = IF branch = "cached" THEN "done"
                                           ELSE "startServer",
                                 ![t].result = IF branch = "cached"
                                               THEN "cached" ELSE "none"]
    /\ UNCHANGED <<tokenFile, store, parse, event, settings, credentialsFile, now, calls, pc,
                   ctx, token, server, codeChan, errChan, requests, pending,
                   lastResp, serve, timer, code, result, h, states>>

\* authenticate, line 115: the listener of the task gets a port no open
\* listener has.
RaceStartCallbackServer(t, p) ==
    /\ tasks[t].pc = "startServer"
    /\ p \notin OpenPorts
    /\ tasks' = [tasks EXCEPT ![t].pc = "setRedirect", ![t].port = p]
    /\ UNCHANGED <<config, tokenFile, store, parse, event, settings, credentialsFile, now, calls, pc,
                   ctx, token, server, codeChan, errChan, requests, pending,
                   lastResp, serve, timer, code, result, h, states>>

\* authenticate, line 122: a.config.RedirectURL = "http://localhost:<port>".
RaceSetRedirectURL(t) ==
    /\ tasks[t].pc = "setRedirect"
    /\ config' = [config EXCEPT !.RedirectURL = RedirectURL(tasks[t].port)]
    /\ tasks' = [tasks EXCEPT ![t].pc = "authURL"]
    /\ UNCHANGED <<tokenFile, store, parse, event, settings, credentialsFile, now, calls, pc,
                   ctx, token, server, codeChan, errChan, requests, pending,
                   lastResp, serve, timer, code, result, h, states>>

\* authenticate, line 125: a.config.AuthCodeURL puts the RedirectURL the
\* configuration has now into the authorization URL.
RaceAuthCodeURL(t) ==
    /\ tasks[t].pc = "authURL"
    /\ tasks' = [tasks EXCEPT ![t].pc = "select", ![t].url = config.RedirectURL]
    /\ states' = Append(states, AuthCodeState)
    /\ UNCHANGED <<config, tokenFile, store, parse, event, settings, credentialsFile, now, calls, pc,
                   ctx, token, server, codeChan, errChan, requests, pending,
                   lastResp, serve, timer, code, result, h>>

\* authenticate, lines 138-147: the select receives a code, or the flow ends
\* with an error and the listener is closed.
RaceSelect(t, gotCode) ==
    /\ tasks[t].pc = "select"
    /\ tasks' = [tasks EXCEPT ![t].pc = IF gotCode THEN "exchange" ELSE "done",
                              ![t].result = IF gotCode THEN "none" ELSE "noCode"]
    /\ UNCHANGED <<config, tokenFile, store, parse, event, settings, credentialsFile, now, calls, pc,
                   ctx, token, server, codeChan, errChan, requests, pending,
                   lastResp, serve, timer, code, result, h, states>>

\* authenticate, lines 150-161: a.config.Exchange sends the RedirectURL the
\* configuration has now; then saveToken, and the listener is closed.
RaceExchange(t, netOk, wrote) ==
    /\ tasks[t].pc = "exchange"
    /\ LET after == AfterExchange(netOk, tokenFile, IssuedToken, wrote)
       IN /\ tokenFile' = after.file
          /\ tasks' = [tasks EXCEPT ![t].pc = "done",
                                    ![t].exchange = config.RedirectURL,
                                    ![t].result = after.path]
    /\ UNCHANGED <<config, store, parse, event, settings, credentialsFile, now, calls, pc,
                   ctx, token, server, codeChan, errChan, requests, pending,
                   lastResp, serve, timer, code, result, h, states>>

\* RaceSpec: one GetToken call by each of the tasks, on one Authenticator
\* with valid credentials and no token file, interleaved in every way.
RaceInit ==
    /\ InitState(0, {AbsentFile})
    /\ credentialsFile = "ok"
    /\ parse = Idle /\ event = Idle /\ settings = Idle
    /\ tasks = NoTasks

RaceNext ==
    \E t \in Tasks :
        \/ RaceGetToken(t)
        \/ RaceLoadCredentials(t)
        \/ \E p \in RacePorts : RaceStartCallbackServer(t, p)
        \/ RaceSetRedirectURL(t)
        \/ RaceAuthCodeURL(t)
        \/ \E gotCode \in BOOLEAN : RaceSelect(t, gotCode)
        \/ \E netOk \in BOOLEAN, wrote \in WriteOutcomes :
               RaceExchange(t, netOk, wrote)

RaceSpec == RaceInit /\ [][RaceNext]_vars

\* ------------------------------------------------------------------ strings
\* Go strings are TLA+ strings; the characters are those of ASCII.
Char(s, i) == SubSeq(s, i, i)

\* s[i-1:j] of Go, cut to the length of s.
Slice(s, i, j) ==
    IF i > Len(s) \/ j < i THEN ""
    ELSE SubSeq(s, i, IF j > Len(s) THEN Len(s) ELSE j)

HasPrefix(s, prefix) ==
    Len(s) >= Len(prefix) /\ SubSeq(s, 1, Len(prefix)) = prefix

\* \s of regexp and the white space strings.TrimSpace removes.
IsSpace(c) == c \in {" ", "\t", "\n", "\r", "\f"}
\* \d of regexp.
IsDigit(c) == c \in {"0", "1", "2", "3", "4", "5", "6", "7", "8", "9"}

\* strings.TrimSpace
RECURSIVE TrimLeft(_)
TrimLeft(s) ==
    IF s # "" /\ IsSpace(Head(s)) THEN TrimLeft(Tail(s)) ELSE s
RECURSIVE TrimRight(_)
TrimRight(s) ==
    IF s # "" /\ IsSpace(Char(s, Len(s)))
    THEN TrimRight(Slice(s, 1, Len(s) - 1)) ELSE s
TrimSpace(s) == TrimRight(TrimLeft(s))

\* strings.ToLower
UpperCase == "ABCDEFGHIJKLMNOPQRSTUVWXYZ"
LowerCase == "abcdefghijklmnopqrstuvwxyz"
LowerOf ==
    [c \in {Char(UpperCase, i) : i \in 1..Len(UpperCase)} |->
        Char(LowerCase, CHOOSE i \in 1..Len(UpperCase) : Char(UpperCase, i) = c)]
LowerChar(c) == IF c \in DOMAIN LowerOf THEN LowerOf[c] ELSE c
RECURSIVE ToLower(_)
ToLower(s) == IF s = "" THEN "" ELSE LowerChar(Head(s)) \o ToLower(Tail(s))

\* The number of characters at the start of s that satisfy the test.
RECURSIVE SpanSpaces(_)
SpanSpaces(s) ==
    IF s # "" /\ IsSpace(Head(s)) THEN 1 + SpanSpaces(Tail(s)) ELSE 0
RECURSIVE SpanDigits(_)
SpanDigits(s) ==
    IF s # "" /\ IsDigit(Head(s)) THEN 1 + SpanDigits(Tail(s)) ELSE 0

\* s without its first n characters.
Drop(s, n) == Slice(s, n + 1, Len(s))

\* The value of a decimal digit.
DigitValue(c) == CHOOSE d \in 0..9 : Char("0123456789", d + 1) = c

\* ----------------------------------------------------------------- integers
\* Go's int and time.Duration are 64 bits wide.  The model keeps the
\* arithmetic and narrows the word to IntBits bits, with the second as the
\* unit of a Duration, so that the values where the word overflows are
\* within reach: the largest int is MaxInt, and a product wraps around.
IntBits == 16
RECURSIVE Pow2(_)
Pow2(n) == IF n = 0 THEN 1 ELSE 2 * Pow2(n - 1)
MaxInt == Pow2(IntBits - 1) - 1
MinInt == -Pow2(IntBits - 1)
Wrap(x) == ((x - MinInt) % Pow2(IntBits)) + MinInt

\* time.Second, time.Minute, time.Hour
Second == 1
Minute == 60 * Second
Hour == 60 * Minute

\* The digits of s as a number, or MaxInt + 1 when that is exceeded.
RECURSIVE Digits(_, _)
Digits(s, acc) ==
    IF s = "" THEN acc
    ELSE LET next == 10 * acc + DigitValue(Head(s))
         IN Digits(Tail(s), IF next > MaxInt THEN MaxInt + 1 ELSE next)

\* strconv.Atoi: an optional sign and decimal digits; an error for anything
\* else and for a value out of the range of int.
Atoi(s) ==
    LET signed == s # "" /\ Head(s) \in {"+", "-"}
        body == IF signed THEN Tail(s) ELSE s
        n == Digits(body, 0)
        neg == signed /\ Head(s) = "-"
    IN IF body = "" \/ SpanDigits(body) # Len(body)
       THEN [ok |-> FALSE, value |-> 0]
       ELSE IF n > MaxInt /\ ~(neg /\ n = MaxInt + 1)
       THEN [ok |-> FALSE, value |-> 0]
       ELSE [ok |-> TRUE, value |-> IF neg THEN -n ELSE n]

\* -------------------------------------------------------------------- time
\* The locations of the zone database the model has.
Tokyo == Location("Asia/Tokyo", 32400, NoTransition, 32400)
\* America/New_York around 2024-03-10 07:00:00 UTC, when the clocks go from
\* 02:00 EST to 03:00 EDT.
NewYork == Location("America/New_York", -18000, 1710054000, -14400)
\* America/Havana around 2024-03-10 05:00:00 UTC, when the clocks go from
\* 00:00 CST to 01:00 CDT.
Havana == Location("America/Havana", -18000, 1710046800, -14400)

\* The zone database: time.LoadLocation.
ZoneNames == {UTC.name, Tokyo.name, NewYork.name, Havana.name}
LoadLocation(name) ==
    IF name \in ZoneNames
    THEN [ok |-> TRUE, loc |-> CHOOSE l \in {UTC, Tokyo, NewYork, Havana} : l.name = name]
    ELSE [ok |-> FALSE, loc |-> UTC]

\* Location.lookup: the offset in use at Unix time u and the bounds of the
\* period it is in use.
Lookup(l, u) ==
    IF l.at = NoTransition
    THEN [offset |-> l.before, start |-> -Forever, end |-> Forever]
    ELSE IF u < l.at
    THEN [offset |-> l.before, start |-> -Forever, end |-> l.at]
    ELSE [offset |-> l.after, start |-> l.at, end |-> Forever]

In(t, l) == [unix |-> t.unix, loc |-> l]

\* Days since 1970-01-01 of a date of the proleptic Gregorian calendar (day
\* may lie outside the month: time.Date normalises), and back.
DaysFromCivil(y, m, d) ==
    LET yy == IF m <= 2 THEN y - 1 ELSE y
        era == yy \div 400
        yoe == yy - era * 400
        mp == IF m > 2 THEN m - 3 ELSE m + 9
        doy == (153 * mp + 2) \div 5 + d - 1
        doe == yoe * 365 + yoe \div 4 - yoe \div 100 + doy
    IN era * 146097 + doe - 719468
CivilFromDays(z) ==
    LET zz == z + 719468
        era == zz \div 146097
        doe == zz - era * 146097
        yoe == (doe - doe \div 1460 + doe \div 36524 - doe \div 146096) \div 365
        doy == doe - (365 * yoe + yoe \div 4 - yoe \div 100)
        mp == (5 * doy + 2) \div 153
        m == IF mp < 10 THEN mp + 3 ELSE mp - 9
    IN [year |-> yoe + era * 400 + (IF m <= 2 THEN 1 ELSE 0), month |-> m,
        day |-> doy - (153 * mp + 2) \div 5 + 1]

\* The seconds a day has.
SecondsPerDay == 86400

\* Time.Date and Time.Clock: the date and the time of day t shows in its
\* location.
LocalSeconds(t) == t.unix + Lookup(t.loc, t.unix).offset
DateOf(t) == CivilFromDays(LocalSeconds(t) \div SecondsPerDay)
ClockOf(t) == LocalSeconds(t) % SecondsPerDay

\* time.Date(year, month, day, hour, min, sec, 0, loc): the offset is looked
\* up for the wall time taken as UTC, and once more when the UTC time that
\* gives lies outside the period of that offset.
Date(year, month, day, hour, min, sec, loc) ==
    LET wall == DaysFromCivil(year, month, day) * SecondsPerDay
                  + hour * 3600 + min * 60 + sec
        first == Lookup(loc, wall)
        utc == wall - first.offset
        offset == IF first.offset # 0 /\ (utc < first.start \/ utc >= first.end)
                  THEN Lookup(loc, utc).offset ELSE first.offset
    IN [unix |-> wall - offset, loc |-> loc]

\* Time.AddDate(0, 0, days)
AddDate(t, days) ==
    LET d == DateOf(t)
        c == ClockOf(t)
    IN Date(d.year, d.month, d.day + days, c \div 3600, (c % 3600) \div 60,
            c % 60, t.loc)

\* Time.Add(d)
Add(t, d) == [t EXCEPT !.unix = @ + d]

\* --------------------------------------------------------------- ParseTime
ErrInvalidDateFormat == "invalid date/time format"
ErrInvalidTimezone == "invalid timezone"

NoMatch == [ok |-> FALSE, time |-> TimeZero]
Match(t) == [ok |-> TRUE, time |-> t]

\* getLocation: the timezone given, else the TZ environment variable, else
\* time.Local (local).
getLocationLenient(timezone, tz, local) ==
    CASE timezone # "" /\ LoadLocation(timezone).ok ->
             [ok |-> TRUE, loc |-> LoadLocation(timezone).loc, err |-> "", msg |-> ""]
      [] tz # "" /\ LoadLocation(tz).ok ->
             [ok |-> TRUE, loc |-> LoadLocation(tz).loc, err |-> "", msg |-> ""]
      [] OTHER -> [ok |-> TRUE, loc |-> local, err |-> "", msg |-> ""]
getLocation(timezone, tz, local) ==
    IF timezone # ""
    THEN IF LoadLocation(timezone).ok
         THEN [ok |-> TRUE, loc |-> LoadLocation(timezone).loc, err |-> "", msg |-> ""]
         ELSE [ok |-> FALSE, loc |-> UTC, err |-> ErrInvalidTimezone,
               msg |-> ErrInvalidTimezone \o ": " \o timezone]
    ELSE IF tz # ""
    THEN IF LoadLocation(tz).ok
         THEN [ok |-> TRUE, loc |-> LoadLocation(tz).loc, err |-> "", msg |-> ""]
         ELSE [ok |-> FALSE, loc |-> UTC, err |-> ErrInvalidTimezone,
               msg |-> ErrInvalidTimezone \o ": " \o tz
                         \o " (from TZ environment variable)"]
    ELSE [ok |-> TRUE, loc |-> local, err |-> "", msg |-> ""]

\* inDurationRegex, ^in\s+(\d+)\s*(hours?|minutes?|mins?|hrs?)$ : the
\* submatches, or no match.
InDurationUnits == {"hour", "hours", "minute", "minutes", "min", "mins", "hr", "hrs"}
inDurationRegex(input) ==
    LET afterIn == Drop(input, 2)
        afterSpaces == Drop(afterIn, SpanSpaces(afterIn))
        digits == Slice(afterSpaces, 1, SpanDigits(afterSpaces))
        afterDigits == Drop(afterSpaces, Len(digits))
        unit == Drop(afterDigits, SpanSpaces(afterDigits))
    IN IF /\ HasPrefix(input, "in")
          /\ SpanSpaces(afterIn) >= 1
          /\ digits # ""
          /\ unit \in InDurationUnits
       THEN [ok |-> TRUE, amount |-> digits, unit |-> unit]
       ELSE [ok |-> FALSE, amount |-> "", unit |-> ""]

\* parseInDuration: now plus amount hours or minutes, the product taken in
\* the word of a Duration.
parseInDuration(input, tnow) ==
    LET matches == inDurationRegex(input)
        amount == Atoi(matches.amount)
    IN IF ~matches.ok \/ ~amount.ok THEN NoMatch
       ELSE IF HasPrefix(matches.unit, "hour") \/ HasPrefix(matches.unit, "hr")
       THEN Match(Add(tnow, Wrap(amount.value * Hour)))
       ELSE IF HasPrefix(matches.unit, "min")
       THEN Match(Add(tnow, Wrap(amount.value * Minute)))
       ELSE NoMatch

\* The end of dayTimeRegex and the whole of timeOnlyRegex,
\* ^(\d{1,2}):(\d{2})(?::(\d{2}))?$ : the submatches, or no match.
timeOnlyRegex(s) ==
    LET hour == Slice(s, 1, SpanDigits(s))
        afterHour == Drop(s, Len(hour))
        minute == Slice(afterHour, 2, 3)
        afterMinute == Drop(afterHour, 3)
        second == Slice(afterMinute, 2, 3)
    IN IF /\ Len(hour) \in {1, 2}
          /\ HasPrefix(afterHour, ":")
          /\ Len(minute) = 2 /\ SpanDigits(minute) = 2
          /\ \/ afterMinute = ""
             \/ /\ HasPrefix(afterMinute, ":")
                /\ Len(afterMinute) = 3 /\ SpanDigits(second) = 2
       THEN [ok |-> TRUE, hour |-> hour, minute |-> minute,
             second |-> IF afterMinute = "" THEN "" ELSE second]
       ELSE [ok |-> FALSE, hour |-> "", minute |-> "", second |-> ""]

\* dayTimeRegex, ^(?:today|tomorrow)\s*(?:at\s+)?(\d{1,2}):(\d{2})(?::(\d{2}))?$
dayTimeRegex(input) ==
    LET afterDay == IF HasPrefix(input, "today") THEN Drop(input, 5)
                    ELSE Drop(input, 8)
        afterSpaces == Drop(afterDay, SpanSpaces(afterDay))
        afterAt == Drop(afterSpaces, 2)
        rest == IF HasPrefix(afterSpaces, "at") /\ SpanSpaces(afterAt) >= 1
                THEN Drop(afterAt, SpanSpaces(afterAt))
                ELSE afterSpaces
    IN IF HasPrefix(input, "today") \/ HasPrefix(input, "tomorrow")
       THEN timeOnlyRegex(rest)
       ELSE [ok |-> FALSE, hour |-> "", minute |-> "", second |-> ""]

\* The checks parseDayWithTime and parseTimeOnly make on the submatches: the
\* hour, minute and second, or no match when one is out of range.
ClockFieldsUnchecked(matches) ==
    [ok |-> matches.ok,
     hour |-> Atoi(matches.hour).value, minute |-> Atoi(matches.minute).value,
     second |-> IF matches.second # "" THEN Atoi(matches.second).value ELSE 0]
ClockFields(matches) ==
    LET hour == Atoi(matches.hour)
        minute == Atoi(matches.minute)
        second == IF matches.second # "" THEN Atoi(matches.second)
                  ELSE [ok |-> TRUE, value |-> 0]
    IN IF /\ matches.ok
          /\ hour.ok /\ hour.value >= 0 /\ hour.value <= 23
          /\ minute.ok /\ minute.value >= 0 /\ minute.value <= 59
          /\ second.ok /\ second.value >= 0 /\ second.value <= 59
       THEN [ok |-> TRUE, hour |-> hour.value, minute |-> minute.value,
             second |-> second.value]
       ELSE [ok |-> FALSE, hour |-> 0, minute |-> 0, second |-> 0]

\* parseDayWithTime
parseDayWithTime(input, tnow, daysOffset, loc) ==
    LET fields == ClockFields(dayTimeRegex(input))
        targetDate == DateOf(AddDate(tnow, daysOffset))
    IN IF ~fields.ok THEN NoMatch
       ELSE Match(Date(targetDate.year, targetDate.month, targetDate.day,
                       fields.hour, fields.minute, fields.second, loc))

\* parseRelative; clock is what time.Now() returns.  The result tells which
\* pattern gave the time.
parseRelative(input, loc, clock) ==
    LET lower == ToLower(input)
        tnow == In(clock, loc)
        inDuration == parseInDuration(lower, tnow)
        today == parseDayWithTime(lower, tnow, 0, loc)
        tomorrow == parseDayWithTime(lower, tnow, 1, loc)
    IN CASE HasPrefix(lower, "in ") /\ inDuration.ok ->
                [ok |-> TRUE, time |-> inDuration.time, stage |-> "relative-duration"]
         [] HasPrefix(lower, "today") /\ today.ok ->
                [ok |-> TRUE, time |-> today.time, stage |-> "relative-day"]
         [] HasPrefix(lower, "tomorrow") /\ tomorrow.ok ->
                [ok |-> TRUE, time |-> tomorrow.time, stage |-> "relative-day"]
         [] OTHER -> [ok |-> FALSE, time |-> TimeZero, stage |-> "none"]

\* parseTimeOnly
parseTimeOnly(input, loc, clock) ==
    LET fields == ClockFields(timeOnlyRegex(input))
        tnow == DateOf(In(clock, loc))
    IN IF ~fields.ok THEN NoMatch
       ELSE Match(Date(tnow.year, tnow.month, tnow.day,
                       fields.hour, fields.minute, fields.second, loc))

\* ------------------------------------------------- time.ParseInLocation
\* The elements of the layouts in use, as time.Parse splits a layout: the
\* reference values 2006 01 02 2 15 04 05 Jan January Z07:00, and literal
\* text.
shortMonthNames == <<"jan", "feb", "mar", "apr", "may", "jun",
                     "jul", "aug", "sep", "oct", "nov", "dec">>
longMonthNames == <<"january", "february", "march", "april", "may", "june",
                    "july", "august", "september", "october", "november",
                    "december">>

\* lookup(tab, val): the first name of the table val begins with, letter case
\* aside; 0 when there is none.
lookup(tab, val) ==
    LET hits == {i \in 1..Len(tab) :
                    ToLower(Slice(val, 1, Len(tab[i]))) = tab[i]}
    IN IF hits = {} THEN 0 ELSE CHOOSE i \in hits : \A j \in hits : i <= j

\* getnum(s, fixed): a number of one or two digits (of two when fixed).
getnum(s, fixed) ==
    LET n == IF SpanDigits(Slice(s, 1, 2)) = 2 THEN 2 ELSE SpanDigits(Slice(s, 1, 1))
    IN IF n = 0 \/ (fixed /\ n = 1) THEN [ok |-> FALSE, n |-> 0, rest |-> s]
       ELSE [ok |-> TRUE, n |-> Atoi(Slice(s, 1, n)).value, rest |-> Drop(s, n)]

\* daysIn(month, year)
isLeap(year) == year % 4 = 0 /\ (year % 100 # 0 \/ year % 400 = 0)
daysIn(month, year) ==
    IF month = 2 THEN (IF isLeap(year) THEN 29 ELSE 28)
    ELSE IF month \in {4, 6, 9, 11} THEN 30 ELSE 31

\* The fields time.Parse has before the first element is read; zone is the
\* offset the value gives, or NoZone.
NoZone == -Forever
NoFields == [year |-> 0, month |-> 1, day |-> 1, hour |-> 0, min |-> 0,
             sec |-> 0, zone |-> NoZone, z |-> FALSE]
ParseFailed == [ok |-> FALSE, fields |-> NoFields]

\* A fraction of a second that follows the seconds (and is not in the
\* layout) is read and, the unit being the second, dropped.
SkipFraction(value) ==
    IF Len(value) >= 2 /\ Char(value, 1) \in {".", ","} /\ IsDigit(Char(value, 2))
    THEN Drop(value, 1 + SpanDigits(Drop(value, 1)))
    ELSE value

\* The zone element Z07:00: Z, or a sign, the hours, a colon and the minutes.
ParseZone(value) ==
    LET hr == Slice(value, 2, 3)
        mm == Slice(value, 5, 6)
        sign == IF Char(value, 1) = "-" THEN -1 ELSE 1
    IN IF HasPrefix(value, "Z") THEN [ok |-> TRUE, zone |-> 0, rest |-> Drop(value, 1)]
       ELSE IF /\ Len(value) >= 6
               /\ Char(value, 1) \in {"+", "-"}
               /\ Char(value, 4) = ":"
               /\ SpanDigits(hr) = 2 /\ SpanDigits(mm) = 2
               /\ Atoi(hr).value < 24 /\ Atoi(mm).value < 60
       THEN [ok |-> TRUE, zone |-> sign * (Atoi(hr).value * 60 + Atoi(mm).value) * 60,
             rest |-> Drop(value, 6)]
       ELSE [ok |-> FALSE, zone |-> NoZone, rest |-> value]

\* time.Parse, element by element: the fields, when the value has the form
\* of the layout, each field is in range and no text is left.
RECURSIVE ParseLayout(_, _, _)
ParseLayout(layout, value, f) ==
    IF layout = <<>>
    THEN IF value = "" /\ f.day >= 1 /\ f.day <= daysIn(f.month, f.year)
         THEN [ok |-> TRUE, fields |-> f] ELSE ParseFailed
    ELSE
    LET std == Head(layout)
        more == Tail(layout)
        two == getnum(value, TRUE)
        any == getnum(value, FALSE)
        mon == lookup(IF std = "Jan" THEN shortMonthNames ELSE longMonthNames, value)
        monLen == Len((IF std = "Jan" THEN shortMonthNames ELSE longMonthNames)[mon])
        z == ParseZone(value)
    IN CASE std = "2006" ->
              IF Len(value) >= 4 /\ SpanDigits(Slice(value, 1, 4)) = 4
              THEN ParseLayout(more, Drop(value, 4),
                               [f EXCEPT !.year = Digits(Slice(value, 1, 4), 0)])
              ELSE ParseFailed
         [] std = "01" ->
              IF two.ok /\ two.n >= 1 /\ two.n <= 12
              THEN ParseLayout(more, two.rest, [f EXCEPT !.month = two.n])
              ELSE ParseFailed
         [] std = "02" ->
              IF two.ok THEN ParseLayout(more, two.rest, [f EXCEPT !.day = two.n])
              ELSE ParseFailed
         [] std = "2" ->
              IF any.ok THEN ParseLayout(more, any.rest, [f EXCEPT !.day = any.n])
              ELSE ParseFailed
         [] std = "15" ->
              IF any.ok /\ any.n < 24
              THEN ParseLayout(more, any.rest, [f EXCEPT !.hour = any.n])
              ELSE ParseFailed
         [] std = "04" ->
              IF two.ok /\ two.n < 60
              THEN ParseLayout(more, two.rest, [f EXCEPT !.min = two.n])
              ELSE ParseFailed
         [] std = "05" ->
              IF two.ok /\ two.n < 60
              THEN ParseLayout(more, SkipFraction(two.rest), [f EXCEPT !.sec = two.n])
              ELSE ParseFailed
         [] std \in {"Jan", "January"} ->
              IF mon # 0
              THEN ParseLayout(more, Drop(value, monLen), [f EXCEPT !.month = mon])
              ELSE ParseFailed
         [] std = "Z07:00" ->
              IF z.ok THEN ParseLayout(more, z.rest,
                                        [f EXCEPT !.zone = z.zone,
                                                  !.z = HasPrefix(value, "Z")])
              ELSE ParseFailed
         [] OTHER ->
              IF HasPrefix(value, std) THEN ParseLayout(more, Drop(value, Len(std)), f)
              ELSE ParseFailed

\* time.FixedZone("", offset)
FixedZone(offset) == Location("", offset, NoTransition, offset)

\* The time of the fields p that time.Parse read: a value with a zone gives
\* the instant the zone fixes (in UTC for Z, in loc when loc has that offset
\* then, else in a fixed zone); a value without one is taken as wall time in
\* loc.
WallTime(p, loc) ==
    IF ~p.ok THEN NoMatch
    ELSE Match(Date(p.fields.year, p.fields.month, p.fields.day,
                    p.fields.hour, p.fields.min, p.fields.sec, loc))
ZonedTime(p, utc, loc) ==
    IF ~p.ok THEN NoMatch
    ELSE IF p.fields.zone = NoZone THEN WallTime(p, loc)
    ELSE IF p.fields.z THEN utc
    ELSE IF Lookup(loc, utc.time.unix - p.fields.zone).offset = p.fields.zone
    THEN Match([unix |-> utc.time.unix - p.fields.zone, loc |-> loc])
    ELSE Match([unix |-> utc.time.unix - p.fields.zone,
                loc |-> FixedZone(p.fields.zone)])

\* time.ParseInLocation(layout, value, loc)
ParseInLocationIgnoringZone(layout, value, loc) ==
    WallTime(ParseLayout(layout, value, NoFields), loc)
ParseInLocation(layout, value, loc) ==
    ZonedTime(ParseLayout(layout, value, NoFields),
              WallTime(ParseLayout(layout, value, NoFields), UTC), loc)

\* ------------------------------------------------------------ parseStandard
\* s with every digit replaced by d.
RECURSIVE Shape(_)
Shape(s) ==
    IF s = "" THEN ""
    ELSE (IF IsDigit(Head(s)) THEN "d" ELSE Head(s)) \o Shape(Tail(s))

\* dateparse: the layout it works out for a date of the form yyyy-mm-dd,
\* alone or followed by T or a space and hh:mm or hh:mm:ss, and then by Z or
\* an offset +hh:mm or -hh:mm; <<>> for a string of another form.
DateparseLayout(s) ==
    LET shape == Shape(s)
        date == <<"2006", "-", "01", "-", "02">>
        rest == Drop(shape, 10)
        sep == Slice(s, 11, 11)
        clock == Drop(rest, 1)
        secs == HasPrefix(clock, "dd:dd:dd")
        time == IF secs THEN <<"15", ":", "04", ":", "05">> ELSE <<"15", ":", "04">>
        zone == Drop(clock, IF secs THEN 8 ELSE 5)
    IN IF ~HasPrefix(shape, "dddd-dd-dd") THEN <<>>
       ELSE IF rest = "" THEN date
       ELSE IF sep \notin {"T", " "} \/ ~HasPrefix(clock, "dd:dd") THEN <<>>
       ELSE IF zone = "" THEN date \o <<sep>> \o time
       ELSE IF zone \in {"Z", "+dd:dd", "-dd:dd"}
       THEN date \o <<sep>> \o time \o <<"Z07:00">>
       ELSE <<>>

\* dateparse.ParseIn(input, loc): time.ParseInLocation with the layout worked
\* out, so that a zone or offset in the string fixes the instant and loc
\* counts only for a string without one.
dateparse_ParseIn(input, loc) ==
    LET layout == DateparseLayout(input)
    IN IF layout = <<>> THEN NoMatch ELSE ParseInLocation(layout, input, loc)

\* The formats parseStandard tries after dateparse, in its order.
formats ==
    << <<"2006", "-", "01", "-", "02", "T", "15", ":", "04", ":", "05">>,
       <<"2006", "-", "01", "-", "02", "T", "15", ":", "04">>,
       <<"2006", "-", "01", "-", "02", " ", "15", ":", "04", ":", "05">>,
       <<"2006", "-", "01", "-", "02", " ", "15", ":", "04">>,
       <<"2006", "/", "01", "/", "02", " ", "15", ":", "04", ":", "05">>,
       <<"2006", "/", "01", "/", "02", " ", "15", ":", "04">>,
       <<"01", "/", "02", "/", "2006", " ", "15", ":", "04", ":", "05">>,
       <<"01", "/", "02", "/", "2006", " ", "15", ":", "04">>,
       <<"02", "/", "01", "/", "2006", " ", "15", ":", "04", ":", "05">>,
       <<"02", "/", "01", "/", "2006", " ", "15", ":", "04">>,
       <<"Jan", " ", "2", ", ", "2006", " ", "15", ":", "04", ":", "05">>,
       <<"Jan", " ", "2", ", ", "2006", " ", "15", ":", "04">>,
       <<"January", " ", "2", ", ", "2006", " ", "15", ":", "04", ":", "05">>,
       <<"January", " ", "2", ", ", "2006", " ", "15", ":", "04">>,
       <<"2006", "-", "01", "-", "02">> >>

\* parseStandard: dateparse, then the first of the formats that parses, else
\* ErrInvalidDateFormat with the input in the message.
OrElse(first, second) == IF first.ok THEN first ELSE second
RECURSIVE FirstFormat(_, _, _)
FirstFormat(i, input, loc) ==
    IF i > Len(formats) THEN NoMatch
    ELSE OrElse(ParseInLocation(formats[i], input, loc),
                FirstFormat(i + 1, input, loc))
Standard(parsed, input) ==
    IF parsed.ok THEN [ok |-> TRUE, time |-> parsed.time, err |-> "", msg |-> ""]
    ELSE [ok |-> FALSE, time |-> TimeZero, err |-> ErrInvalidDateFormat,
          msg |-> ErrInvalidDateFormat \o ": could not parse '" \o input
                    \o "'. Try formats like '2024-01-15 14:00', '14:00', 'tomorrow 14:00', or 'in 2 hours'"]
parseStandard(input, loc) ==
    Standard(OrElse(dateparse_ParseIn(input, loc), FirstFormat(1, input, loc)),
             input)

\* The stages of ParseTime, for an input that is not empty and the location
\* loc.  stage tells what gave the result, tried the stages gone through.
FirstMatch(relative, timeOnly, standard) ==
    CASE relative.ok ->
           [ok |-> TRUE, time |-> relative.time, err |-> "", msg |-> "",
            stage |-> relative.stage,
            tried |-> IF relative.stage = "relative-duration"
                      THEN <<"relative-duration">>
                      ELSE <<"relative-duration", "relative-day">>]
      [] timeOnly.ok ->
           [ok |-> TRUE, time |-> timeOnly.time, err |-> "", msg |-> "",
            stage |-> "time-only",
            tried |-> <<"relative-duration", "relative-day", "time-only">>]
      [] OTHER ->
           [ok |-> standard.ok, time |-> standard.time, err |-> standard.err,
            msg |-> standard.msg, stage |-> "general",
            tried |-> <<"relative-duration", "relative-day", "time-only",
                        "general">>]
ParseTimeStagesNoTimeOnly(trimmed, loc, clock) ==
    FirstMatch(parseRelative(trimmed, loc, clock), NoMatch,
               parseStandard(trimmed, loc))
ParseTimeStages(trimmed, loc, clock) ==
    FirstMatch(parseRelative(trimmed, loc, clock),
               parseTimeOnly(trimmed, loc, clock),
               parseStandard(trimmed, loc))

\* ParseTime(input, timezone), with the TZ variable tz, time.Local local and
\* the clock reading clock.
ParseTimeStagesFirst(input, timezone, tz, local, clock) ==
    LET trimmed == TrimSpace(input)
        located == getLocation(timezone, tz, local)
    IN IF trimmed = ""
       THEN [ok |-> FALSE, time |-> TimeZero, err |-> ErrInvalidDateFormat,
             msg |-> ErrInvalidDateFormat \o ": empty input", stage |-> "empty",
             tried |-> <<>>]
       ELSE IF located.ok
       THEN ParseTimeStages(trimmed, located.loc, clock)
       ELSE IF ParseTimeStages(trimmed, UTC, clock).ok
       THEN ParseTimeStages(trimmed, UTC, clock)
       ELSE [ok |-> FALSE, time |-> TimeZero, err |-> located.err,
             msg |-> located.msg, stage |-> "location", tried |-> <<>>]
ParseTimeZoneFirst(input, timezone, tz, local, clock) ==
    LET trimmed == TrimSpace(input)
        located == getLocation(timezone, tz, local)
    IN IF ~located.ok
       THEN [ok |-> FALSE, time |-> TimeZero, err |-> located.err,
             msg |-> located.msg, stage |-> "location", tried |-> <<>>]
       ELSE IF trimmed = ""
       THEN [ok |-> FALSE, time |-> TimeZero, err |-> ErrInvalidDateFormat,
             msg |-> ErrInvalidDateFormat \o ": empty input", stage |-> "empty",
             tried |-> <<>>]
       ELSE ParseTimeStages(trimmed, located.loc, clock)
ParseTime(input, timezone, tz, local, clock) ==
    LET trimmed == TrimSpace(input)
        located == getLocation(timezone, tz, local)
    IN IF trimmed = ""
       THEN [ok |-> FALSE, time |-> TimeZero, err |-> ErrInvalidDateFormat,
             msg |-> ErrInvalidDateFormat \o ": empty input", stage |-> "empty",
             tried |-> <<>>]
       ELSE IF ~located.ok
       THEN [ok |-> FALSE, time |-> TimeZero, err |-> located.err,
             msg |-> located.msg, stage |-> "location", tried |-> <<>>]
       ELSE ParseTimeStages(trimmed, located.loc, clock)

\* ------------------------------------------------------------ ParseDuration
\* time.ParseDuration, for the units of a second and more (the unit of the
\* model): [-+]?([0-9]*(\.[0-9]*)?[a-z]+)+ , each number times its unit, the
\* sum an error when it does not fit the word.
unitMap == [s |-> Second, m |-> Minute, h |-> Hour]

\* The letters a unit is made of: all up to the next digit or period.
RECURSIVE SpanUnit(_)
SpanUnit(s) ==
    IF s # "" /\ ~IsDigit(Head(s)) /\ Head(s) # "." THEN 1 + SpanUnit(Tail(s)) ELSE 0

\* 10 to the power n, up to the word's limit.
RECURSIVE Scale(_)
Scale(n) == IF n = 0 THEN 1 ELSE IF 10 * Scale(n - 1) > MaxInt THEN MaxInt + 1
                                 ELSE 10 * Scale(n - 1)

\* The terms of a duration, added to d; Overflow stands for every failure.
Overflow == -1
RECURSIVE DurationTerms(_, _)
DurationTerms(s, d) ==
    IF s = "" THEN d
    ELSE
    LET pl == SpanDigits(s)
        v == Digits(Slice(s, 1, pl), 0)
        afterInt == Drop(s, pl)
        point == HasPrefix(afterInt, ".")
        fl == IF point THEN SpanDigits(Drop(afterInt, 1)) ELSE 0
        f == Digits(Slice(afterInt, 2, 1 + fl), 0)
        afterNum == IF point THEN Drop(afterInt, 1 + fl) ELSE afterInt
        ul == SpanUnit(afterNum)
        u == Slice(afterNum, 1, ul)
        unit == unitMap[u]
        whole == v * unit
        part == IF fl = 0 THEN 0 ELSE (f * unit) \div Scale(fl)
    IN IF \/ pl = 0 /\ fl = 0
          \/ v > MaxInt \/ f > MaxInt \/ Scale(fl) > MaxInt
          \/ ul = 0 \/ u \notin DOMAIN unitMap
       THEN Overflow
       ELSE IF whole > MaxInt + 1 \/ whole + part > MaxInt + 1
               \/ d + whole + part > MaxInt + 1
       THEN Overflow
       ELSE DurationTerms(Drop(afterNum, ul), d + whole + part)

time_ParseDuration(s) ==
    LET signed == s # "" /\ Head(s) \in {"+", "-"}
        neg == signed /\ Head(s) = "-"
        body == IF signed THEN Tail(s) ELSE s
        d == DurationTerms(body, 0)
    IN IF body = "0" THEN [ok |-> TRUE, value |-> 0]
       ELSE IF body = "" \/ d = Overflow THEN [ok |-> FALSE, value |-> 0]
       ELSE IF neg THEN [ok |-> TRUE, value |-> -d]
       ELSE IF d > MaxInt THEN [ok |-> FALSE, value |-> 0]
       ELSE [ok |-> TRUE, value |-> d]

\* ParseDuration: a number alone is minutes, the product taken in the word
\* of a Duration; anything else goes to time.ParseDuration.
ParseDuration(input) ==
    LET trimmed == TrimSpace(input)
        minutes == Atoi(trimmed)
        d == time_ParseDuration(trimmed)
    IN IF trimmed = ""
       THEN [ok |-> FALSE, value |-> 0, msg |-> "empty duration", stage |-> "empty"]
       ELSE IF minutes.ok
       THEN [ok |-> TRUE, value |-> Wrap(minutes.value * Minute), msg |-> "",
             stage |-> "minutes"]
       ELSE IF ~d.ok
       THEN [ok |-> FALSE, value |-> 0,
             msg |-> "invalid duration '" \o trimmed
                       \o "': use formats like '30m', '1h', '1h30m', or just '30' for minutes",
             stage |-> "duration"]
       ELSE [ok |-> TRUE, value |-> d.value, msg |-> "", stage |-> "duration"]

\* ------------------------------------------- calls of ParseTime, ParseDuration
\* The inputs of ParseTime: relative durations, relative days, times of day,
\* dates with and without an offset, values out of range, and text that is
\* none of these.
TimeInputs ==
    {"in 2 hours", "In 30 Minutes", "in 1 hr", "in 45 mins", "in  0  min",
     "in 9 hours", "in 10 hours", "in 546 minutes", "in 547 minutes",
     "in 40000 minutes", "in 2hours", "in 2 days", "in2 hours",
     "today 14:00", "TODAY AT 14:00:15", "today14:00", "today at14:00",
     "Tomorrow 09:00", "tomorrow at 9:05", "today 02:30", "tomorrow 02:30:59",
     "today", "tomorrow at noon",
     "14:00", "9:05:30", "02:30", "0:00", "23:59:59", " 14:00 ",
     "25:00", "14:60", "24:00", "14:00:60", "today 25:00",
     "tomorrow at 14:60", "today 14:00:60",
     "2024-01-15T14:00:00Z", "2024-01-15T14:00:00+05:00",
     "2024-01-15T14:00:00-05:00", "2024-06-20T09:15:00Z",
     "2024-01-15 14:00+09:00", "2024-01-15T14:00:00", "2024-01-15T14:30",
     "2024-01-15 14:00", "2024-01-15", "2024-13-15 14:00",
     "2024/03/20 10:00", "01/15/2024 14:00", "Jan 5, 2024 10:00",
     "not a date", "  Not A Date\t", "", " ", " \t\n"}

\* The inputs of ParseDuration.
DurationInputs ==
    {"30", "30m", "90", "1h", "1h30m", "45s", " 15 ", "0", "0m", "-5", "-5m",
     "+5", "546", "546m", "547", "547m", "40000", "40000m", "", "  ", "abc",
     "1h30", "5x", "m"}

\* The timezone argument and the TZ variable: empty, names of the zone
\* database, and names that are not.
Timezones ==
    {"", "UTC", "Asia/Tokyo", "America/New_York", "America/Havana",
     "Invalid/Timezone"}
EnvTZ == {"", "Asia/Tokyo", "Mars/Phobos"}

\* The pairs of the two a call is made with: one of them empty, or both set.
CallArgs ==
    {<<"", "">>, <<"UTC", "">>, <<"Asia/Tokyo", "">>, <<"America/New_York", "">>,
     <<"America/Havana", "">>, <<"Invalid/Timezone", "">>,
     <<"", "Asia/Tokyo">>, <<"", "Mars/Phobos">>,
     <<"Invalid/Timezone", "Asia/Tokyo">>, <<"UTC", "Mars/Phobos">>,
     <<"America/New_York", "Asia/Tokyo">>}

\* time.Local, the zone of the system.
Local == Location("Local", 3600, NoTransition, 3600)

\* Readings of the clock: 2024-03-09 20:15:30 UTC, a date that is the 9th in
\* New York and the 10th in Tokyo; and 2024-03-09 05:30:00 UTC, half past
\* midnight in New York and Havana on the day before their clocks skip an
\* hour.
Clocks == {[unix |-> 1710015330, loc |-> Local], [unix |-> 1709962200, loc |-> Local]}

\* The variables ParseTime and ParseDuration leave alone.
authVars == <<config, credentialsFile, tokenFile, now, calls, pc, ctx, token,
              server, codeChan, errChan, requests, pending, lastResp, serve,
              timer, code, result, h, states, store, tasks>>

\* The locations getLocation can give.
Locations == {UTC, Tokyo, NewYork, Havana, Local}

\* What ParseTime, its stages and ParseDuration give for each of the inputs.
ParseTimeResults ==
    [i \in TimeInputs, a \in CallArgs, c \in Clocks |->
        ParseTime(i, a[1], a[2], Local, c)]
StageResults ==
    [i \in TimeInputs, loc \in Locations, c \in Clocks |->
        [relative |-> parseRelative(TrimSpace(i), loc, c),
         timeOnly |-> parseTimeOnly(TrimSpace(i), loc, c),
         standard |-> parseStandard(TrimSpace(i), loc)]]
ParseDurationResults == [d \in DurationInputs |-> ParseDuration(d)]

\* ParseTime(parse.input, timezone), with TZ set to tz.
CallParseTime(timezone, tz) ==
    /\ parse.input \in TimeInputs
    /\ parse' = [parse EXCEPT
                   !.timezone = timezone, !.tz = tz,
                   !.prev = [timezone |-> parse.timezone, tz |-> parse.tz,
                             out |-> parse.out],
                   !.out = ParseTimeResults[parse.input, <<timezone, tz>>, parse.clock]]
    /\ UNCHANGED <<authVars, event, settings>>

\* ParseDuration(d)
CallParseDuration(d) ==
    /\ parse' = [parse EXCEPT
                   !.text = d,
                   !.prevSpan = [text |-> parse.text, span |-> parse.span],
                   !.span = [ParseDurationResults[d] EXCEPT !.stage = "done"]]
    /\ UNCHANGED <<authVars, event, settings>>

\* TimeSpec: calls of ParseTime on one input at one reading of the clock,
\* with every timezone argument and TZ value.
TimeInit ==
    /\ InitState(0, {AbsentFile})
    /\ credentialsFile = "ok"
    /\ \E i \in TimeInputs, c \in Clocks :
          parse = [NoParse EXCEPT !.input = i, !.clock = c]
    /\ event = Idle
    /\ settings = Idle
    /\ tasks = Idle

TimeNext == \E a \in CallArgs : CallParseTime(a[1], a[2])

TimeSpec == TimeInit /\ [][TimeNext]_vars

\* DurationSpec: calls of ParseDuration, one after the other.
DurationInit ==
    /\ InitState(0, {AbsentFile})
    /\ credentialsFile = "ok"
    /\ parse = NoParse
    /\ event = Idle
    /\ settings = Idle
    /\ tasks = Idle

DurationNext == \E d \in DurationInputs : CallParseDuration(d)

DurationSpec == DurationInit /\ [][DurationNext]_vars

\* ---------------------------------------------------------- calendar client
\* Errors for calendar operations.
ErrEventCreationFailed == "failed to create event"
ErrInvalidEventTime == "invalid event time"
ErrCalendarNotFound == "calendar not found"
ErrPermissionDenied == "permission denied"
ErrQuotaExceeded == "API quota exceeded"

\* An error value: the sentinel it wraps (is: "" when it wraps none of the
\* five, NoError when there is no error) and the text after it.
NoError == [is |-> "nil", text |-> ""]
Errorf(sentinel, text) == [is |-> sentinel, text |-> text]

\* The times and durations of the client keep what is below the second: they
\* count in ticks, TicksPerSecond of them to the second (Go: 1e9 ns).  A
\* time.Time is then the Unix second, the ticks into it and the location.
TicksPerSecond == 2
EventTime(t, nsec) == [unix |-> t.unix, nsec |-> nsec, loc |-> t.loc]
\* Time.IsZero
TimeIsZero(t) == t.unix = TimeZero.unix /\ t.nsec = 0
\* Time.Add(d)
TimeAdd(t, d) ==
    [t EXCEPT !.unix = @ + ((t.nsec + d) \div TicksPerSecond),
              !.nsec = (t.nsec + d) % TicksPerSecond]
\* Time.After(u)
After(t, u) == t.unix > u.unix \/ (t.unix = u.unix /\ t.nsec > u.nsec)

\* fmt's %d of n >= 0, and n in width digits with leading zeros.
DigitChars == <<"0", "1", "2", "3", "4", "5", "6", "7", "8", "9">>
RECURSIVE Itoa(_)
Itoa(n) ==
    IF n < 10 THEN DigitChars[n + 1]
    ELSE Itoa(n \div 10) \o DigitChars[(n % 10) + 1]
RECURSIVE Pad(_, _)
Pad(n, width) ==
    IF width = 0 THEN ""
    ELSE Pad(n \div 10, width - 1) \o DigitChars[(n % 10) + 1]

\* Time.Format(time.RFC3339), layout 2006-01-02T15:04:05Z07:00: the date and
\* the time of day to the second in the location of t, then Z for the offset
\* 0 and else the offset as +hh:mm or -hh:mm.  What is below the second is
\* not in the layout and does not show.
FormatZone(offset) ==
    IF offset = 0 THEN "Z"
    ELSE IF offset < 0
    THEN "-" \o Pad((-offset) \div 3600, 2) \o ":" \o Pad(((-offset) % 3600) \div 60, 2)
    ELSE "+" \o Pad(offset \div 3600, 2) \o ":" \o Pad((offset % 3600) \div 60, 2)
FormatClock(d, c) ==
    Pad(d.year, 4) \o "-" \o Pad(d.month, 2) \o "-" \o Pad(d.day, 2) \o "T"
      \o Pad(c \div 3600, 2) \o ":" \o Pad((c % 3600) \div 60, 2) \o ":"
      \o Pad(c % 60, 2)
FormatRFC3339(t) ==
    FormatClock(DateOf(t), ClockOf(t)) \o FormatZone(Lookup(t.loc, t.unix).offset)

\* time.Parse(layout, value): a value without a zone is a wall time in UTC,
\* one with Z an instant in UTC, one with an offset an instant in time.Local
\* when Local has that offset then and else in a fixed zone.
RFC3339 == <<"2006", "-", "01", "-", "02", "T", "15", ":", "04", ":", "05", "Z07:00">>
DateOnly == <<"2006", "-", "01", "-", "02">>
ParsedTime(p, utc) ==
    IF ~p.ok THEN NoMatch
    ELSE IF p.fields.zone = NoZone \/ p.fields.z THEN utc
    ELSE IF Lookup(Local, utc.time.unix - p.fields.zone).offset = p.fields.zone
    THEN Match([unix |-> utc.time.unix - p.fields.zone, loc |-> Local])
    ELSE Match([unix |-> utc.time.unix - p.fields.zone,
                loc |-> FixedZone(p.fields.zone)])
time_Parse(layout, value) ==
    ParsedTime(ParseLayout(layout, value, NoFields),
               WallTime(ParseLayout(layout, value, NoFields), UTC))

\* A *calendar.EventDateTime; present is FALSE for the nil pointer.
EventDateTime(dateTime, date, timeZone) ==
    [present |-> TRUE, DateTime |-> dateTime, Date |-> date, TimeZone |-> timeZone]
NilDateTime == [present |-> FALSE, DateTime |-> "", Date |-> "", TimeZone |-> ""]

\* validateEventParams: the title, then the start time, then the duration.
validateEventParamsNoDuration(params) ==
    IF params.Title = ""
    THEN Errorf(ErrInvalidEventTime, "title is required")
    ELSE IF TimeIsZero(params.StartTime)
    THEN Errorf(ErrInvalidEventTime, "start time is required")
    ELSE NoError
validateEventParams(params) ==
    IF params.Title = ""
    THEN Errorf(ErrInvalidEventTime, "title is required")
    ELSE IF TimeIsZero(params.StartTime)
    THEN Errorf(ErrInvalidEventTime, "start time is required")
    ELSE IF params.Duration <= 0
    THEN Errorf(ErrInvalidEventTime, "duration must be positive")
    ELSE NoError

\* containsQuotaError: some sub-error of apiErr has a quota reason.
containsQuotaErrorFirstOnly(apiErr) ==
    /\ apiErr.Errors # <<>>
    /\ apiErr.Errors[1] \in {"quotaExceeded", "rateLimitExceeded", "userRateLimitExceeded"}
containsQuotaError(apiErr) ==
    \E i \in 1..Len(apiErr.Errors) :
        apiErr.Errors[i] \in {"quotaExceeded", "rateLimitExceeded", "userRateLimitExceeded"}

\* wrapAPIError.  An error of the provider is a *googleapi.Error (structured:
\* Code, Message and the reasons of its Errors) or any other error, of which
\* Message is the text.
wrapAPIError(err) ==
    IF err.structured
    THEN CASE err.Code = 400 ->
                Errorf(ErrEventCreationFailed, "invalid request - " \o err.Message)
           [] err.Code = 401 ->
                Errorf(ErrPermissionDenied, "authentication expired, please re-authenticate")
           [] err.Code = 403 ->
                IF containsQuotaError(err)
                THEN Errorf(ErrQuotaExceeded, "please try again later")
                ELSE Errorf(ErrPermissionDenied,
                            "you don't have permission to access this calendar")
           [] err.Code = 404 ->
                Errorf(ErrCalendarNotFound, "check that the calendar ID is correct")
           [] err.Code = 429 ->
                Errorf(ErrQuotaExceeded, "too many requests, please try again later")
           [] OTHER ->
                Errorf(ErrEventCreationFailed,
                       err.Message \o " (code: " \o Itoa(err.Code) \o ")")
    ELSE Errorf(ErrEventCreationFailed, err.Message)

\* What a call gives: an EventResult (ok), an error, or a panic of the
\* goroutine (a nil pointer dereferenced).
NoTimes == [StartTime |-> EventTime(TimeZero, 0), EndTime |-> EventTime(TimeZero, 0)]
EventReturned(start, end) ==
    [ok |-> TRUE, panic |-> FALSE, err |-> NoError,
     value |-> [StartTime |-> EventTime(start, 0), EndTime |-> EventTime(end, 0)]]
Failed(err) == [ok |-> FALSE, panic |-> FALSE, err |-> err, value |-> NoTimes]
Panic == [ok |-> FALSE, panic |-> TRUE, err |-> NoError, value |-> NoTimes]

\* parseEventResult: the start and then the end of the event, each read as a
\* timestamp of DateTime and, when that does not parse, as a date of Date.
ReadDateTime(edt) ==
    OrElse(time_Parse(RFC3339, edt.DateTime), time_Parse(DateOnly, edt.Date))
ResultOf(startPresent, start, endPresent, end) ==
    IF ~startPresent THEN Panic
    ELSE IF ~start.ok THEN Failed(Errorf("", "failed to parse start time"))
    ELSE IF ~endPresent THEN Panic
    ELSE IF ~end.ok THEN Failed(Errorf("", "failed to parse end time"))
    ELSE EventReturned(start.time, end.time)
parseEventResult(created) ==
    ResultOf(created.Start.present, ReadDateTime(created.Start),
             created.End.present, ReadDateTime(created.End))

\* The calendar.Event CreateEvent sends: the title, and the start and the end
\* as RFC 3339 text with the name of the location.
NoRequest == [Summary |-> "", Start |-> NilDateTime, End |-> NilDateTime]
EventOf(params, endTime) ==
    [Summary |-> params.Title,
     Start |-> EventDateTime(FormatRFC3339(params.StartTime), "",
                             params.StartTime.loc.name),
     End |-> EventDateTime(FormatRFC3339(endTime), "", endTime.loc.name)]

\* What Events.Insert(...).Do() gives for a request: an error, or the event
\* created, whose start and end are those of the request (echo) or the ones
\* the reply names.
Echo == [echo |-> TRUE, value |-> NilDateTime]
Given(edt) == [echo |-> FALSE, value |-> edt]
Created(request, reply) ==
    [Summary |-> request.Summary,
     Start |-> IF reply.Start.echo THEN request.Start ELSE reply.Start.value,
     End |-> IF reply.End.echo THEN request.End ELSE reply.End.value]

\* Client.CreateEvent(ctx, params) when the provider answers reply: whether
\* Insert was called, the event sent, and what the call gives.
AfterInsert(request, reply) ==
    [inserted |-> TRUE, request |-> request,
     out |-> IF reply.failed THEN Failed(wrapAPIError(reply.err))
             ELSE parseEventResult(Created(request, reply))]
Client_CreateEvent(params, reply) ==
    IF validateEventParams(params) # NoError
    THEN [inserted |-> FALSE, request |-> NoRequest,
          out |-> Failed(validateEventParams(params))]
    ELSE AfterInsert(EventOf(params, TimeAdd(params.StartTime, params.Duration)),
                     reply)

\* The calls of the model.  Durations are in ticks.
EventTitles == {"", "Standup"}
EventStarts ==
    {EventTime(TimeZero, 0),
     EventTime([unix |-> 1710015330, loc |-> UTC], 0),
     EventTime([unix |-> 1710015330, loc |-> Tokyo], 1),
     EventTime([unix |-> 1709962200, loc |-> NewYork], 0)}
EventDurations ==
    {-1800 * TicksPerSecond, 0, 1, TicksPerSecond, 1800 * TicksPerSecond,
     3600 * TicksPerSecond + 1}
EventParamsSet ==
    [Title : EventTitles, StartTime : EventStarts, Duration : EventDurations]

APIError(status, message, reasons) ==
    [structured |-> TRUE, Code |-> status, Message |-> message, Errors |-> reasons]
TransportError(text) ==
    [structured |-> FALSE, Code |-> 0, Message |-> text, Errors |-> <<>>]
NoAPIError == TransportError("")
APIErrors ==
    {APIError(403, "Forbidden", r) :
        r \in {<<>>, <<"quotaExceeded">>, <<"forbidden">>,
               <<"forbidden", "rateLimitExceeded">>, <<"userRateLimitExceeded">>,
               <<"rateLimitExceeded", "forbidden">>}}
    \union {APIError(c, "Failure", r) :
               c \in {400, 401, 404, 409, 429, 500},
               r \in {<<>>, <<"quotaExceeded">>}}
    \union {TransportError("connection reset by peer"),
            TransportError("context canceled")}
DateTimeForms ==
    {Echo,
     Given(NilDateTime),
     Given(EventDateTime("", "", "")),
     Given(EventDateTime("", "2024-03-09", "")),
     Given(EventDateTime("2024-03-09T20:15:30+09:00", "2024-01-01", "")),
     Given(EventDateTime("2024-03-09T25:00:00Z", "", "")),
     Given(EventDateTime("not-a-time", "2024-03-10", "")),
     Given(EventDateTime("", "2024-02-30", ""))}
Replies ==
    {[failed |-> TRUE, err |-> e, Start |-> Echo, End |-> Echo] : e \in APIErrors}
    \union {[failed |-> FALSE, err |-> NoAPIError, Start |-> s, End |-> e] :
               s \in DateTimeForms, e \in DateTimeForms}

\* No call of CreateEvent yet; params are the parameters of the call to
\* come.  A call that does not reach Insert has no reply.
NoReply == [failed |-> FALSE, err |-> NoAPIError, Start |-> Echo, End |-> Echo]
NoCreateEvent(params) ==
    [params |-> params, called |-> FALSE, reply |-> NoReply,
     inserted |-> FALSE, request |-> NoRequest, out |-> Failed(NoError)]
Called(params, reply, call) ==
    [params |-> params, called |-> TRUE,
     reply |-> IF call.inserted THEN reply ELSE NoReply,
     inserted |-> call.inserted, request |-> call.request, out |-> call.out]

\* c.CreateEvent(ctx, event.params), the provider answering reply.  The
\* Client keeps nothing from one call to the next, so that the first call
\* stands for every call.
CreateEvent(reply) ==
    /\ ~event.called
    /\ event' = Called(event.params, reply, Client_CreateEvent(event.params, reply))
    /\ UNCHANGED <<authVars, parse, settings>>

\* EventSpec: a call of CreateEvent.
EventInit ==
    /\ InitState(0, {AbsentFile})
    /\ credentialsFile = "ok"
    /\ parse = Idle
    /\ tasks = Idle
    /\ settings = Idle
    /\ \E p \in EventParamsSet : event = NoCreateEvent(p)

EventNext == \E reply \in Replies : CreateEvent(reply)

EventSpec == EventInit /\ [][EventNext]_vars

\* -------------------------------------------------------------- config.Load
\* A value of a source: a string, an int, or nil (the key is not there).
Text(s) == [kind |-> "string", s |-> s, n |-> 0]
Number(n) == [kind |-> "int", s |-> "", n |-> n]
Nil == [kind |-> "nil", s |-> "", n |-> 0]

\* The keys of the configuration, the environment variable BindEnv gives
\* each ("" for none) and the one AutomaticEnv reads for it: the key in upper
\* case, the prefix being empty.
ConfigKeys ==
    {"credentials_path", "token_path", "calendar_id", "default_duration", "timezone"}
BoundEnv(key) ==
    CASE key = "credentials_path" -> "GOOGLE_CALENDAR_CREDENTIALS"
      [] key = "token_path" -> "GOOGLE_CALENDAR_TOKEN"
      [] key = "calendar_id" -> "GOOGLE_CALENDAR_ID"
      [] key = "timezone" -> "TZ"
      [] OTHER -> ""
AutomaticEnv(key) ==
    CASE key = "credentials_path" -> "CREDENTIALS_PATH"
      [] key = "token_path" -> "TOKEN_PATH"
      [] key = "calendar_id" -> "CALENDAR_ID"
      [] key = "default_duration" -> "DEFAULT_DURATION"
      [] key = "timezone" -> "TIMEZONE"
EnvNames ==
    {AutomaticEnv(k) : k \in ConfigKeys} \union {BoundEnv(k) : k \in ConfigKeys \ {"default_duration"}}

\* viper's getEnv: the variable counts when it is set and not empty; in env
\* a variable that is not set has the value "".
getEnv(env, name) == [val |-> Text(env[name]), ok |-> name # "" /\ env[name] # ""]

\* v.SetDefault
Defaults(key) ==
    CASE key = "calendar_id" -> Text("primary")
      [] key = "default_duration" -> Number(30)
      [] OTHER -> Nil

\* DefaultConfig
DefaultConfig ==
    [CredentialsPath |-> "", TokenPath |-> "", CalendarID |-> "primary",
     DefaultDuration |-> 30, Timezone |-> ""]

\* The loop over flagOverrides: v.Set for a value that is neither nil nor
\* the empty string.
SetOverride(value) == IF value # Nil /\ value # Text("") THEN value ELSE Nil

\* v.ReadInConfig, as Load takes it: the keys of a file that is found and
\* parses; nothing for a file that is not found or cannot be read.
ReadInConfig(file, key) == IF file.state = "ok" THEN file.values[key] ELSE Nil

\* viper's find, as v.Get calls it: the value set, then the environment
\* (AutomaticEnv's variable, then the bound one), then the file, then the
\* default.
FirstSetFileOverEnv(override, automatic, bound, inFile, default) ==
    IF override # Nil THEN override
    ELSE IF inFile # Nil THEN inFile
    ELSE IF automatic.ok THEN automatic.val
    ELSE IF bound.ok THEN bound.val
    ELSE default
FirstSet(override, automatic, bound, inFile, default) ==
    IF override # Nil THEN override
    ELSE IF automatic.ok THEN automatic.val
    ELSE IF bound.ok THEN bound.val
    ELSE IF inFile # Nil THEN inFile
    ELSE default
find(key, file, env, flagOverrides) ==
    FirstSet(SetOverride(flagOverrides[key]), getEnv(env, AutomaticEnv(key)),
             IF BoundEnv(key) = "" THEN [val |-> Nil, ok |-> FALSE]
             ELSE getEnv(env, BoundEnv(key)),
             ReadInConfig(file, key), Defaults(key))

\* v.Unmarshal(cfg), weakly typed: a string field takes a string or the
\* decimal digits of an int, the int field an int or the number a string
\* spells; a key without a value leaves the field as DefaultConfig has it.
DecodeString(value, default) ==
    IF value = Nil THEN [ok |-> TRUE, s |-> default]
    ELSE IF value.kind = "int" THEN [ok |-> TRUE, s |-> Itoa(value.n)]
    ELSE [ok |-> TRUE, s |-> value.s]
DecodeInt(value, default) ==
    IF value = Nil THEN [ok |-> TRUE, n |-> default]
    ELSE IF value.kind = "int" THEN [ok |-> TRUE, n |-> value.n]
    ELSE [ok |-> Atoi(value.s).ok, n |-> Atoi(value.s).value]
viper_Unmarshal(credentialsPath, tokenPath, calendarID, duration, timezone) ==
    IF ~duration.ok
    THEN [ok |-> FALSE, err |-> "failed to unmarshal config", cfg |-> DefaultConfig]
    ELSE [ok |-> TRUE, err |-> "",
          cfg |-> [CredentialsPath |-> credentialsPath.s, TokenPath |-> tokenPath.s,
                   CalendarID |-> calendarID.s, DefaultDuration |-> duration.n,
                   Timezone |-> timezone.s]]

\* Load(configPath, flagOverrides), file being what is at the path and env
\* the environment.
Load(file, env, flagOverrides) ==
    IF file.state = "malformed"
    THEN [ok |-> FALSE, err |-> "failed to parse config file", cfg |-> DefaultConfig]
    ELSE viper_Unmarshal(
           DecodeString(find("credentials_path", file, env, flagOverrides),
                        DefaultConfig.CredentialsPath),
           DecodeString(find("token_path", file, env, flagOverrides),
                        DefaultConfig.TokenPath),
           DecodeString(find("calendar_id", file, env, flagOverrides),
                        DefaultConfig.CalendarID),
           DecodeInt(find("default_duration", file, env, flagOverrides),
                     DefaultConfig.DefaultDuration),
           DecodeString(find("timezone", file, env, flagOverrides),
                        DefaultConfig.Timezone))

\* The sources of the model.
NoValues == [k \in ConfigKeys |-> Nil]
FlagOverrides ==
    {[NoValues EXCEPT !["calendar_id"] = c, !["default_duration"] = d,
                      !["token_path"] = t] :
        c \in {Nil, Text(""), Text("flag-calendar-id")},
        d \in {Nil, Number(45)},
        t \in {Nil, Text("")}}
NoEnv == [n \in EnvNames |-> ""]
Environments ==
    {[NoEnv EXCEPT !["GOOGLE_CALENDAR_ID"] = g, !["CALENDAR_ID"] = a,
                   !["DEFAULT_DURATION"] = d, !["GOOGLE_CALENDAR_TOKEN"] = t] :
        g \in {"", "env-calendar-id"},
        a \in {"", "auto-calendar-id"},
        d \in {"", "60", "abc"},
        t \in {"", "/env/token.json"}}
ConfigFiles ==
    {[state |-> "absent", values |-> NoValues],
     [state |-> "unreadable", values |-> NoValues],
     [state |-> "malformed", values |-> NoValues],
     [state |-> "ok", values |-> NoValues],
     [state |-> "ok",
      values |-> [NoValues EXCEPT !["credentials_path"] = Text("/config/credentials.json"),
                                  !["token_path"] = Text("/config/token.json"),
                                  !["calendar_id"] = Text("config-calendar-id")]],
     [state |-> "ok",
      values |-> [NoValues EXCEPT !["calendar_id"] = Text(""),
                                  !["default_duration"] = Number(90),
                                  !["timezone"] = Text("America/New_York")]]}

\* No call of Load yet; the sources are those of the call to come.
NoConfig == [ok |-> FALSE, err |-> "", cfg |-> DefaultConfig]
NoLoad(file, env, flagOverrides) ==
    [file |-> file, env |-> env, flagOverrides |-> flagOverrides,
     called |-> FALSE, out |-> NoConfig]

\* config.Load(path, settings.flagOverrides).  Load reads its sources anew
\* at every call and keeps nothing, so that the first call stands for every
\* call.
CallLoad ==
    /\ ~settings.called
    /\ settings' = [settings EXCEPT
                      !.called = TRUE,
                      !.out = Load(settings.file, settings.env, settings.flagOverrides)]
    /\ UNCHANGED <<authVars, parse, event>>

\* ConfigSpec: a call of Load.
ConfigInit ==
    /\ InitState(0, {AbsentFile})
    /\ credentialsFile = "ok"
    /\ parse = Idle
    /\ tasks = Idle
    /\ event = Idle
    /\ \E file \in ConfigFiles, env \in Environments, flagOverrides \in FlagOverrides :
          settings = NoLoad(file, env, flagOverrides)

ConfigNext == CallLoad

ConfigSpec == ConfigInit /\ [][ConfigNext]_vars

\* ------------------------------------------------------------------- claims
\* A call is under way or has just returned, and its loadToken read a token
\* off the token file.
CallLoadedToken ==
    /\ pc # "idle"
    /\ h.via # "credentials"
    /\ h.fileAtLoad.state = "token"

\* The steps of the interactive flow.
FlowSteps == {"startServer", "select", "waiting", "exchange"}

CallLoadedInvalid ==
    CallLoadedToken /\ ~Valid(h.fileAtLoad.token, h.nowAtLoad)

\* C4 as stated: after a successful refresh the token file holds the new
\* token.
C4_AsStated ==
    (pc = "returned" /\ CallLoadedInvalid /\ h.via = "refresh")
        => tokenFile = TokenFile(result.token)

\* C4: with a saved token that is not valid, GetToken tries a refresh before
\* anything else; when the refresh succeeds it returns the new token and
\* writes it over the old one, and the call starts no listener, opens no
\* browser and exchanges no code.  The token file holds the new token when
\* the write succeeded; when the write failed it is left as it was, or cut
\* short by the failed write.
C4_RefreshBeforeFlow ==
    CallLoadedInvalid
        => /\ pc # "refresh" => h.refreshTried
           /\ (pc = "returned" /\ h.via = "refresh")
                => /\ result = TokenResult(h.refreshed)
                   /\ h.refreshed # h.fileAtLoad.token
                   /\ Valid(h.refreshed, now)
                   /\ h.saves = 1
                   /\ IF h.saved THEN tokenFile = TokenFile(h.refreshed)
                      ELSE tokenFile \in {h.fileAtLoad, CorruptFile}
                   /\ h.listeners = 0
                   /\ h.browser = 0
                   /\ h.exchanges = 0
                   /\ server.state # "open"

C4_Witness ==
    /\ pc = "returned"
    /\ CallLoadedInvalid
    /\ h.via = "refresh"
    /\ h.saved
    /\ tokenFile = TokenFile(result.token)
    /\ tokenFile # h.fileAtLoad
    /\ h.listeners = 0

\* C5: when the refresh fails, for any reason, GetToken does not return the
\* refresh error: it goes on to the interactive flow, and what it returns is
\* the outcome of that flow.
C5_RefreshFailureFallsThrough ==
    h.refreshErr # ""
        => /\ pc \in FlowSteps \cup {"returned"}
           /\ pc = "returned"
                => /\ h.via = "interactive"
                   /\ h.listeners + (IF result.err = "ErrStartCallbackServer" THEN 1 ELSE 0) = 1
                   /\ result.err \notin {"ErrTokenRefreshFailed", h.refreshErr}
                   /\ result.msg # h.refreshErr

C5_Witness ==
    /\ pc = "returned"
    /\ h.refreshErr = "oauth2: cannot fetch token"
    /\ h.via = "interactive"
    /\ h.exchanges = 1
    /\ result.kind = "token"
    /\ result.token.access = "issued"

\* A call whose interactive flow has started its listener.
FlowStarted == pc # "idle" /\ h.listeners > 0

\* C6 as stated: the flow resolves by the event that fired first.
C6_AsStated ==
    (FlowStarted /\ h.resolvedBy # "none") => h.resolvedBy = Head(h.fired)

\* C6: each interactive flow resolves at most once, by one of the events that
\* have fired: by the first event to fire when the flow is blocked in its wait
\* by then, and by any one of the events already fired when the flow reaches
\* the wait.  The branch taken is that of the resolving event alone: an error,
\* a cancellation or the timeout ends the call with no exchange, a code is
\* exchanged once, and no later event resolves the flow again.
C6_ResolvesOnce ==
    FlowStarted
        => /\ h.resolutions <= 1
           /\ h.exchanges <= 1
           /\ (h.resolvedBy = "none") = (h.resolutions = 0)
           /\ h.resolvedBy = "none" => (pc \in {"select", "waiting"} /\ h.exchanges = 0)
           /\ h.resolvedBy # "none"
                => /\ h.resolvedBy \in Range(h.fired)
                   /\ IF h.firedBeforeWait = {}
                      THEN h.resolvedBy = Head(h.fired)
                      ELSE h.resolvedBy \in h.firedBeforeWait
           /\ h.resolvedBy = "code"
                => /\ pc \in {"exchange", "returned"}
                   /\ code \in {Get(q.code) : q \in Queries} \ {""}
                   /\ pc = "returned" => h.exchanges = 1
           /\ h.resolvedBy \in {"error", "ctx", "timeout"}
                => /\ pc = "returned"
                   /\ h.exchanges = 0
                   /\ result.kind = "error"

C6_Witness ==
    /\ pc = "returned"
    /\ h.firedBeforeWait = {}
    /\ h.fired = <<"code">>
    /\ h.resolvedBy = "code"
    /\ lastResp.chan = "err"
    /\ errChan = <<"access_denied">>
    /\ ctx.done
    /\ h.exchanges = 1

\* C7: while the flow waits with no code and no error delivered, the wait
\* lasts no longer than AuthTimeout and no longer than the context allows;
\* the timeout yields ErrAuthenticationFailed, the context yields its own
\* error (Canceled or DeadlineExceeded), and an error sent by the callback
\* server yields ErrAuthenticationFailed with that error's message.
C7_WaitOutcomes ==
    /\ pc = "waiting"
         => /\ timer = h.waitStart + AuthTimeout
            /\ now <= timer
            /\ ~ctx.done
            /\ ctx.deadline # 0 => now <= ctx.deadline
            /\ codeChan = <<>> /\ errChan = <<>>
    /\ (pc = "returned" /\ h.resolvedBy = "timeout")
         => /\ result = ErrResult("ErrAuthenticationFailed",
                                  "timeout waiting for authorization")
            /\ h.resolvedAt = h.waitStart + AuthTimeout
            /\ ctx.deadline = 0 \/ ctx.deadline >= h.resolvedAt
            /\ ~ctx.done
    /\ (pc = "returned" /\ h.resolvedBy = "ctx")
         => /\ ctx.done
            /\ ctx.err \in {"Canceled", "DeadlineExceeded"}
            /\ result = ErrResult(ctx.err, "")
            /\ ctx.err = "DeadlineExceeded" => h.resolvedAt = ctx.deadline
            /\ h.resolvedAt <= h.waitStart + AuthTimeout
    /\ (pc = "returned" /\ h.resolvedBy = "error")
         => /\ result.kind = "error"
            /\ result.err = "ErrAuthenticationFailed"
            /\ result.msg \in {"access_denied", "no authorization code received",
                               "accept error"}
            /\ h.exchanges = 0

C7_Witness ==
    /\ pc = "returned"
    /\ h.resolvedBy = "ctx"
    /\ ctx.err = "DeadlineExceeded"
    /\ ctx.deadline < h.waitStart + AuthTimeout
    /\ h.resolvedAt = ctx.deadline
    /\ result = ErrResult("DeadlineExceeded", "")

\* C8: once the listener was started, it is closed by the time GetToken
\* returns, whatever the return path; no listener is open between calls.
C8_ListenerClosedOnReturn ==
    /\ pc \in {"idle", "returned"} => server.state # "open"
    /\ (pc = "returned" /\ h.listeners > 0)
         => (server.state = "closed" /\ h.closes = h.listeners)

C8_Witness ==
    /\ pc = "returned"
    /\ h.listeners = 1
    /\ h.exchanges = 1
    /\ result = ErrResult("ErrAuthenticationFailed", "exchange failed")
    /\ server.state = "closed"

\* C9 as stated: the listener is closed only after the flow received a code,
\* an error or the timeout.
C9_AsStated ==
    (pc # "idle" /\ server.state = "closed")
        => h.resolvedBy \in {"code", "error", "timeout"}

\* C9: the listener is closed only after the flow received a code, an error,
\* the timeout or the cancellation of the context; until then, and during the
\* exchange of a code, it stays open.
C9_CloseAfterResolution ==
    /\ (pc # "idle" /\ server.state = "closed")
         => /\ h.resolvedBy \in {"code", "error", "timeout", "ctx"}
            /\ pc = "returned"
    /\ pc \in {"select", "waiting", "exchange"} => server.state = "open"

C9_Witness ==
    /\ pc = "returned"
    /\ server.state = "closed"
    /\ h.resolvedBy = "ctx"
    /\ h.fired = <<"ctx">>
    /\ requests = 0

\* C10 as stated: a request whose code parameter is present with value X has
\* X sent on codeChan, nothing sent on errChan, and the response 200 with an
\* HTML content type.
C10_AsStated ==
    (lastResp # NoResp /\ lastResp.code # Absent)
        => /\ lastResp.chan = "code"
           /\ lastResp.value = lastResp.code
           /\ lastResp.other
           /\ lastResp.status = 200
           /\ lastResp.contentType = "text/html"

\* C10: a request whose code parameter is present with a non-empty value X
\* has X sent on codeChan (the handler waits for room there), nothing sent on
\* errChan, and the response 200 with an HTML content type, whatever its
\* error parameter; a code parameter that is present but empty counts as no
\* code.
C10_CodeDelivered ==
    /\ (lastResp # NoResp /\ lastResp.code \notin {Absent, ""})
         => /\ lastResp.chan = "code"
            /\ lastResp.value = lastResp.code
            /\ lastResp.other
            /\ lastResp.status = 200
            /\ lastResp.contentType = "text/html"
    /\ (lastResp # NoResp /\ lastResp.code = "")
         => /\ lastResp.chan = "err"
            /\ lastResp.status = 400

C10_Witness ==
    /\ lastResp.code = "code-A"
    /\ lastResp.error = "access_denied"
    /\ lastResp.chan = "code"
    /\ lastResp.value = "code-A"
    /\ lastResp.status = 200
    /\ codeChan = <<"code-A">>
    /\ errChan = <<>>

\* C11 as stated: a request without a code parameter has the value of its
\* error parameter, when that is present, sent on errChan, and the default
\* message otherwise; nothing is sent on codeChan and the response is 400.
C11_AsStated ==
    (lastResp # NoResp /\ lastResp.code = Absent)
        => /\ lastResp.chan = "err"
           /\ lastResp.value = IF lastResp.error # Absent THEN lastResp.error
                               ELSE "no authorization code received"
           /\ lastResp.other
           /\ lastResp.status = 400

\* C11: a request without a code (the parameter absent or empty) has the
\* value of its error parameter sent on errChan when that value is not empty,
\* and "no authorization code received" when the error parameter is absent
\* or empty; nothing is sent on codeChan and the response is 400.
C11_ErrorDelivered ==
    (lastResp # NoResp /\ Get(lastResp.code) = "")
        => /\ lastResp.chan = "err"
           /\ lastResp.value = IF Get(lastResp.error) # "" THEN lastResp.error
                               ELSE "no authorization code received"
           /\ lastResp.other
           /\ lastResp.status = 400
           /\ lastResp.contentType # "text/html"

C11_Witness ==
    /\ lastResp.code = Absent
    /\ lastResp.error = "access_denied"
    /\ lastResp.chan = "err"
    /\ lastResp.value = "access_denied"
    /\ lastResp.status = 400
    /\ errChan = <<"access_denied">>
    /\ codeChan = <<>>

\* The channels some goroutine is blocked sending on: a handler whose send
\* did not proceed, or the Serve goroutine.
BlockedOn ==
    {HandlerTarget(q.code, q.error).chan : q \in BagToSet(pending)}
        \cup (IF serve = "sendErr" THEN {"err"} ELSE {})

\* C12: codeChan and errChan have room for one value each, so the first send
\* on each of them in a flow proceeds at once, whether the flow is blocked in
\* the select or has not reached it yet: as long as a channel has not been
\* written to in the flow its buffer is free, and no goroutine is blocked
\* sending on it.
C12_FirstWriteNeverBlocks ==
    FlowStarted
        => /\ "code" \notin h.written => (codeChan = <<>> /\ "code" \notin BlockedOn)
           /\ "err" \notin h.written => (errChan = <<>> /\ "err" \notin BlockedOn)
           /\ Len(codeChan) <= 1
           /\ Len(errChan) <= 1

C12_Witness ==
    /\ pc = "select"
    /\ h.written = {"code", "err"}
    /\ codeChan = <<"code-A">>
    /\ errChan = <<"access_denied">>
    /\ pending = EmptyBag
    /\ requests = 2

\* C13: the state values of the authorization URLs of any two flows differ.
C13_StateValuesDiffer ==
    \A i, j \in DOMAIN states : i # j => states[i] # states[j]

\* C14: when the credentials are not loaded yet and loading them fails,
\* GetToken fails with ErrInvalidCredentials, and loads no token, tries no
\* refresh and starts no listener.
C14_CredentialsFailure ==
    (pc = "returned" /\ h.via = "credentials")
        => /\ result.kind = "error"
           /\ result.err = "ErrInvalidCredentials"
           /\ h.fileAtLoad = NoHistory.fileAtLoad
           /\ ~h.refreshTried
           /\ h.listeners = 0

\* C15: when the callback listener cannot be bound, the flow fails with
\* ErrAuthenticationFailed, and opens no browser, waits for nothing and
\* exchanges nothing.
C15_BindFailure ==
    (pc = "returned" /\ h.via = "interactive" /\ h.listeners = 0)
        => /\ result.kind = "error"
           /\ result.err = "ErrAuthenticationFailed"
           /\ h.browser = 0
           /\ h.resolutions = 0
           /\ h.exchanges = 0

\* C16: when the flow received a code and the exchange of the code fails,
\* GetToken fails with ErrAuthenticationFailed, saveToken is not called and
\* the token file is as it was when the call began.
C16_ExchangeFailureKeepsFile ==
    (pc = "returned" /\ h.resolvedBy = "code" /\ result.kind = "error")
        => /\ result.err = "ErrAuthenticationFailed"
           /\ h.exchanges = 1
           /\ h.saves = 0
           /\ tokenFile = h.fileAtLoad

C16_Witness ==
    /\ pc = "returned"
    /\ h.resolvedBy = "code"
    /\ result = ErrResult("ErrAuthenticationFailed", "exchange failed")
    /\ ~ctx.done
    /\ h.fileAtLoad.state = "token"
    /\ tokenFile = h.fileAtLoad

\* C17: when saveToken fails after a successful exchange or a successful
\* refresh, GetToken returns the token it holds in memory, with no error.
C17_SaveFailureNotFatal ==
    (pc = "returned" /\ h.saves > 0 /\ ~h.saved)
        => /\ result.kind = "token"
           /\ result.err = ""
           /\ result.token = token
           /\ result.token = IF h.via = "refresh" THEN h.refreshed ELSE IssuedToken
           /\ Valid(result.token, now)
           /\ tokenFile # TokenFile(result.token)

C17_Witness ==
    /\ pc = "returned"
    /\ h.via = "interactive"
    /\ h.exchanges = 1
    /\ h.saves = 1
    /\ ~h.saved
    /\ result = TokenResult(IssuedToken)
    /\ tokenFile = CorruptFile

SameFields(t, u) ==
    /\ u.access = t.access
    /\ u.refresh = t.refresh
    /\ u.type = t.type
    /\ u.expiry = t.expiry

\* The string fields of t are valid UTF-8.
IsValidUTF8(t) ==
    \A s \in {t.access, t.refresh, t.type} : ToValidUTF8(s) = s

C20_OwnerOnlyAfterSave ==
    store.op = "save" /\ store.ok => tokenFile.mode = OwnerOnly

\* C21: the credentials, once loaded, stay as LoadCredentials read them from
\* the descriptor: no operation of the Authenticator changes a field of the
\* loaded configuration, the redirect setting included.
C21_CredentialsImmutable ==
    config.loaded => config = [loaded |-> TRUE, RedirectURL |-> 0]

\* C22: for any interleaving of GetToken calls on one Authenticator, the
\* redirect URI a flow sends in its code exchange is the one it put in its
\* own authorization URL, which names the port of its own listener.
C22_OwnRedirectURI ==
    \A t \in Tasks :
        tasks[t].pc = "done" /\ tasks[t].result \in {"token", "error"} =>
            /\ tasks[t].url = RedirectURL(tasks[t].port)
            /\ tasks[t].exchange = tasks[t].url

\* The call of ParseTime in parse.out got past the check of the input and the
\* resolution of the zone, to the stages.
ReachedStages == parse.out.stage \notin {"none", "empty", "location"}

\* The location the call of ParseTime in parse.out worked with.
CallLocation == getLocation(parse.timezone, parse.tz, Local).loc

\* The four stages in their order, and what stage k gives on its own for the
\* input, location and clock of the call in parse.out.
StageOrder == <<"relative-duration", "relative-day", "time-only", "general">>
StageAlone(k) ==
    LET st == StageResults[parse.input, CallLocation, parse.clock]
    IN CASE k \in {1, 2} ->
              [ok |-> st.relative.ok /\ st.relative.stage = StageOrder[k],
               time |-> st.relative.time]
         [] k = 3 -> st.timeOnly
         [] k = 4 -> [ok |-> st.standard.ok, time |-> st.standard.time]

\* s contains sub.
Contains(s, sub) ==
    \E i \in 1..(Len(s) - Len(sub) + 1) : Slice(s, i, i + Len(sub) - 1) = sub

\* The call in parse.out went through the stages in their order up to the
\* first that matches, and its result is the result of that stage alone, or
\* ErrInvalidDateFormat with shown in the message when none matches.
FirstMatchWins(shown) ==
    LET out == parse.out
        n == Len(out.tried)
    IN /\ n >= 1
       /\ out.tried = SubSeq(StageOrder, 1, n)
       /\ \A k \in 1..(n - 1) : ~StageAlone(k).ok
       /\ n < Len(StageOrder) => StageAlone(n).ok
       /\ out.stage = StageOrder[n]
       /\ out.ok = StageAlone(n).ok
       /\ out.ok => out.time = StageAlone(n).time
       /\ ~out.ok => /\ out.err = ErrInvalidDateFormat
                     /\ HasPrefix(out.msg, ErrInvalidDateFormat)
                     /\ Contains(out.msg, shown)

\* C23, as stated: ParseTime tries its four stages in the fixed order and the
\* result is that of the first stage that matches; when no stage matches the
\* call fails with InvalidFormat and the message contains the original input.
C23_AsStated == ReachedStages => FirstMatchWins(parse.input)

\* C23: a call of ParseTime that reaches the stages (its input is not empty,
\* its zone resolves) tries them in the fixed order relative-duration,
\* relative-day, time-only, general; a later stage is tried only when every
\* earlier one failed to match, the result is that of the first that matches,
\* and when none matches the call fails with InvalidFormat and the message
\* contains the input without the white space around it.
C23_FirstMatchWins == ReachedStages => FirstMatchWins(TrimSpace(parse.input))

\* C23 witness: an input with white space around it that no stage matches.
C23_Witness ==
    /\ parse.input = "  Not A Date\t"
    /\ parse.out.stage = "general" /\ ~parse.out.ok
    /\ parse.out.tried = StageOrder
    /\ parse.out.err = ErrInvalidDateFormat

\* The name that decides the zone of the call in parse.out: the timezone
\* argument, or the TZ variable when the argument is empty.
DecidingName == IF parse.timezone # "" THEN parse.timezone ELSE parse.tz

\* The call in parse.out worked in the location loc: it reached the stages,
\* and a time it built from a time of day is in loc.
WorkedIn(loc) ==
    /\ ReachedStages
    /\ parse.out.ok /\ parse.out.stage \in {"relative-duration", "relative-day", "time-only"}
          => parse.out.time.loc = loc

\* C24: the zone is resolved by strict priority with no silent fallback: a
\* timezone argument that is not empty decides alone (its zone when it is
\* recognised, InvalidTimezone otherwise, whatever TZ holds); with an empty
\* argument a TZ variable that is not empty decides alone in the same way;
\* with both empty the call works in the local zone and the resolution does
\* not fail.
C24_StrictPriority ==
    parse.out.stage \notin {"none", "empty"} =>
        IF DecidingName = "" THEN WorkedIn(Local)
        ELSE IF LoadLocation(DecidingName).ok
        THEN WorkedIn(LoadLocation(DecidingName).loc)
        ELSE /\ ~parse.out.ok
             /\ parse.out.stage = "location"
             /\ parse.out.err = ErrInvalidTimezone
             /\ HasPrefix(parse.out.msg, ErrInvalidTimezone)
             /\ Contains(parse.out.msg, DecidingName)

\* C24 witness: an unrecognised timezone argument with a recognised TZ, and
\* before it a call with an empty argument that TZ decided.
C24_Witness ==
    /\ parse.input = "14:00"
    /\ parse.timezone = "Invalid/Timezone" /\ parse.tz = "Asia/Tokyo"
    /\ parse.out.err = ErrInvalidTimezone
    /\ parse.prev.timezone = "" /\ parse.prev.tz = "Asia/Tokyo"
    /\ parse.prev.out.ok /\ parse.prev.out.time.loc = Tokyo

\* The number a string of decimal digits denotes.
RECURSIVE Decimal(_, _)
Decimal(s, acc) ==
    IF s = "" THEN acc ELSE Decimal(Tail(s), 10 * acc + DigitValue(Head(s)))

\* The time of day an input asks for, in seconds after midnight, and the
\* days after today it asks it for: a time alone or after "today" is for
\* today, one after "tomorrow" for the next day; form tells that the input
\* is a time of day, alone or after one of the two words, and ok that its
\* hour is in 0-23 and its minute and second in 0-59.
RequestedTimes ==
    [i \in TimeInputs |->
        LET trimmed == TrimSpace(i)
            lower == ToLower(trimmed)
            day == dayTimeRegex(lower)
            matches == IF day.ok THEN day ELSE timeOnlyRegex(trimmed)
            hour == Decimal(matches.hour, 0)
            minute == Decimal(matches.minute, 0)
            second == Decimal(matches.second, 0)
        IN [form |-> matches.ok,
            ok |-> matches.ok /\ hour <= 23 /\ minute <= 59 /\ second <= 59,
            days |-> IF day.ok /\ HasPrefix(lower, "tomorrow") THEN 1 ELSE 0,
            seconds |-> hour * 3600 + minute * 60 + second]]

\* The date days calendar days after the date d.
DatePlus(d, days) == CivilFromDays(DaysFromCivil(d.year, d.month, d.day) + days)

\* C25: for every valid zone and every in-range time of day H:M[:S], the
\* bare time and "today [at] H:M[:S]" give the current date in that zone at
\* H:M:S, and "tomorrow [at] H:M[:S]" gives that date plus one calendar day
\* at H:M:S, in that zone; seconds default to 0 and the keywords match in any
\* letter case.
C25_DateAtTimeOfDay ==
    ReachedStages /\ RequestedTimes[parse.input].ok =>
        /\ parse.out.ok
        /\ parse.out.time.loc = CallLocation
        /\ DateOf(parse.out.time) =
              DatePlus(DateOf(In(parse.clock, CallLocation)),
                       RequestedTimes[parse.input].days)
        /\ ClockOf(parse.out.time) = RequestedTimes[parse.input].seconds

\* The span an input of the form "in N <unit>" asks for, in seconds; ok tells
\* that inDurationRegex accepts the input (in any letter case, with white
\* space around it).
InDurationRequests ==
    [i \in TimeInputs |->
        LET matches == inDurationRegex(ToLower(TrimSpace(i)))
            n == Decimal(matches.amount, 0)
        IN [ok |-> HasPrefix(ToLower(TrimSpace(i)), "in ") /\ matches.ok,
            seconds |-> IF HasPrefix(matches.unit, "h") THEN n * 3600 ELSE n * 60]]

\* C26: for every input "in N <unit>" the pattern accepts, ParseTime gives the
\* current instant plus exactly N hours or N minutes, with no wrap-around or
\* change of sign however large N is, and the instant is the same for every
\* timezone hint.
C26_ExactOffset ==
    ReachedStages /\ InDurationRequests[parse.input].ok =>
        /\ parse.out.ok
        /\ parse.out.time.unix =
              parse.clock.unix + InDurationRequests[parse.input].seconds
        /\ parse.prev.out.ok => parse.prev.out.time.unix = parse.out.time.unix

\* The inputs that are a date and a time in the ISO 8601 form with an
\* offset at the end, Z or +hh:mm or -hh:mm.
IsoOffsetInputs ==
    {i \in TimeInputs :
        LET layout == DateparseLayout(TrimSpace(i))
        IN /\ Len(layout) > 6
           /\ layout[6] = "T"
           /\ layout[Len(layout)] = "Z07:00"}

OutOfRangeInputs ==
    {i \in TimeInputs : RequestedTimes[i].form /\ ~RequestedTimes[i].ok}

C29_EmptyInputFirst ==
    parse.out.stage # "none" /\ TrimSpace(parse.input) = "" =>
        /\ ~parse.out.ok
        /\ parse.out.err = ErrInvalidDateFormat
        /\ parse.out.stage = "empty"
        /\ parse.out.tried = <<>>

\* C29 witness: white space with an unrecognised hint, after the same with an
\* unrecognised TZ.
C29_Witness ==
    /\ parse.input = " \t\n"
    /\ parse.timezone = "Invalid/Timezone"
    /\ parse.out.err = ErrInvalidDateFormat
    /\ parse.prev.timezone = "" /\ parse.prev.tz = "Mars/Phobos"
    /\ parse.prev.out.err = ErrInvalidDateFormat

\* s is a decimal integer, with or without a sign, and the number it denotes.
IsInteger(s) ==
    LET body == IF s # "" /\ Head(s) \in {"+", "-"} THEN Tail(s) ELSE s
    IN body # "" /\ SpanDigits(body) = Len(body)
IntegerValue(s) ==
    IF Head(s) = "-" THEN -Decimal(Tail(s), 0)
    ELSE IF Head(s) = "+" THEN Decimal(Tail(s), 0)
    ELSE Decimal(s, 0)

\* s is a compound duration of hours, minutes and seconds: one or more
\* numbers, each followed by h, m or s, after an optional sign.
RECURSIVE IsTerms(_)
IsTerms(s) ==
    LET whole == SpanDigits(s)
        afterWhole == Drop(s, whole)
        fraction == IF HasPrefix(afterWhole, ".")
                    THEN SpanDigits(Drop(afterWhole, 1)) ELSE 0
        afterNumber == Drop(afterWhole, IF HasPrefix(afterWhole, ".")
                                        THEN 1 + fraction ELSE 0)
    IN /\ whole + fraction > 0
       /\ Slice(afterNumber, 1, 1) \in {"h", "m", "s"}
       /\ Drop(afterNumber, 1) = "" \/ IsTerms(Drop(afterNumber, 1))
IsCompound(s) ==
    IsTerms(IF s # "" /\ Head(s) \in {"+", "-"} THEN Tail(s) ELSE s)

\* C30: ParseDuration takes every bare integer N as exactly N minutes, N * 60
\* seconds with no wrap-around however large N is, so that "N" and "Nm" give
\* the same span for every N; an empty input and a text that is neither an
\* integer nor a compound duration of h, m and s fail with an error.
C30_BareIntegerMinutes ==
    parse.span.stage # "none" =>
        LET text == TrimSpace(parse.text)
            before == TrimSpace(parse.prevSpan.text)
        IN /\ IsInteger(text) =>
                 /\ parse.span.ok
                 /\ parse.span.value = IntegerValue(text) * 60
           /\ parse.prevSpan.span.stage # "none" /\ IsInteger(before)
                 /\ text = before \o "m" =>
                 /\ parse.span.ok = parse.prevSpan.span.ok
                 /\ parse.span.value = parse.prevSpan.span.value
           /\ text = "" => ~parse.span.ok
           /\ ~IsInteger(text) /\ ~IsCompound(text) => ~parse.span.ok

\* The first of the three checks the parameters of the call fail: "" when
\* they fail none.
FirstFailing(params) ==
    IF params.Title = "" THEN "title is required"
    ELSE IF TimeIsZero(params.StartTime) THEN "start time is required"
    ELSE IF params.Duration <= 0 THEN "duration must be positive"
    ELSE ""

\* C31: a call of CreateEvent with an empty title, a zero start time or a
\* duration of zero or less fails with ErrInvalidEventTime without calling
\* Insert, and the message is that of the first check failed in the order
\* title, start time, duration.
C31_InvalidParamsNeverInserted ==
    event.called /\ FirstFailing(event.params) # "" =>
        /\ ~event.inserted
        /\ event.request = NoRequest
        /\ ~event.out.ok /\ ~event.out.panic
        /\ event.out.err.is = ErrInvalidEventTime
        /\ event.out.err.text = FirstFailing(event.params)

\* A call with a title, a zero start time and a negative duration has failed
\* on the start time, and one with a start time and the duration zero on
\* the duration.
C31_Witness ==
    /\ event.called /\ ~event.inserted
    /\ event.params.Title # ""
    /\ \/ /\ TimeIsZero(event.params.StartTime) /\ event.params.Duration < 0
          /\ event.out.err.text = "start time is required"
       \/ /\ ~TimeIsZero(event.params.StartTime) /\ event.params.Duration = 0
          /\ event.out.err.text = "duration must be positive"

\* The instant the text of a date-time sent names, as a time of the client.
SentInstant(edt) == EventTime(time_Parse(RFC3339, edt.DateTime).time, 0)
SameInstant(t, u) == t.unix = u.unix /\ t.nsec = u.nsec

\* C32: when the parameters pass validation, the end sent is the start plus
\* the duration and lies strictly after the start sent; and in every
\* EventResult CreateEvent returns the end lies strictly after the start.
C32_EndAfterStart ==
    event.called /\ event.inserted =>
        /\ SameInstant(SentInstant(event.request.End),
                       TimeAdd(event.params.StartTime, event.params.Duration))
        /\ After(SentInstant(event.request.End), SentInstant(event.request.Start))
        /\ event.out.ok => After(event.out.value.EndTime, event.out.value.StartTime)

\* The kind the mapping gives an error of the provider, and the reasons that
\* tell of a quota.
QuotaReasons == {"quotaExceeded", "rateLimitExceeded", "userRateLimitExceeded"}
KindOf(err) ==
    IF ~err.structured THEN ErrEventCreationFailed
    ELSE CASE err.Code = 400 -> ErrEventCreationFailed
           [] err.Code = 401 -> ErrPermissionDenied
           [] err.Code = 403 ->
                IF \E i \in DOMAIN err.Errors : err.Errors[i] \in QuotaReasons
                THEN ErrQuotaExceeded ELSE ErrPermissionDenied
           [] err.Code = 404 -> ErrCalendarNotFound
           [] err.Code = 429 -> ErrQuotaExceeded
           [] OTHER -> ErrEventCreationFailed

\* C33: every error of the provider comes back as an error of exactly one
\* kind: status 400 as EventCreationFailed, 401 as PermissionDenied, 403 as
\* QuotaExceeded when a sub-error has the reason quotaExceeded,
\* rateLimitExceeded or userRateLimitExceeded and as PermissionDenied when
\* none has, 404 as CalendarNotFound, 429 as QuotaExceeded, any other status
\* as EventCreationFailed with the status in the message, and an error that
\* is not structured as EventCreationFailed.
C33_TotalMapping ==
    event.called /\ event.inserted /\ event.reply.failed =>
        /\ ~event.out.ok /\ ~event.out.panic
        /\ event.out.err.is = KindOf(event.reply.err)
        /\ event.reply.err.structured
             /\ event.reply.err.Code \notin {400, 401, 403, 404, 429}
             => Contains(event.out.err.text, Itoa(event.reply.err.Code))

\* A 403 whose second sub-error tells of a rate limit has come back as
\* QuotaExceeded.
C33_Witness ==
    /\ event.called /\ event.inserted /\ event.reply.failed
    /\ event.reply.err.Code = 403
    /\ Len(event.reply.err.Errors) = 2
    /\ event.reply.err.Errors[1] \notin QuotaReasons
    /\ event.reply.err.Errors[2] \in QuotaReasons
    /\ event.out.err.is = ErrQuotaExceeded

\* The event the provider answered with, whether a start or end of it can be
\* read (it is there, and its timestamp or else its date is valid), and the
\* time it then stands for: that of the timestamp when the timestamp is
\* valid, that of the date when not.
Answered == Created(event.request, event.reply)
Readable(edt) ==
    /\ edt.present
    /\ time_Parse(RFC3339, edt.DateTime).ok \/ time_Parse(DateOnly, edt.Date).ok
TimeRead(edt) ==
    IF time_Parse(RFC3339, edt.DateTime).ok
    THEN EventTime(time_Parse(RFC3339, edt.DateTime).time, 0)
    ELSE EventTime(time_Parse(DateOnly, edt.Date).time, 0)

\* C40: for every event the provider answers with, parseEventResult returns
\* and does not panic: an EventResult when the start and the end each carry
\* a valid timestamp or a valid date, with the timestamp taken when it is
\* valid and the date only when it is not, and an error for every other
\* event, one without a start or without an end included.
C40_ParseEventResultTotal ==
    event.called /\ event.inserted /\ ~event.reply.failed =>
        /\ ~event.out.panic
        /\ IF Readable(Answered.Start) /\ Readable(Answered.End)
           THEN /\ event.out.ok
                /\ event.out.value.StartTime = TimeRead(Answered.Start)
                /\ event.out.value.EndTime = TimeRead(Answered.End)
           ELSE ~event.out.ok /\ event.out.err # NoError

\* What each source of the call in settings sets a key to, as text, and
\* whether it sets it: a flag override that is neither nil nor the empty
\* string, an environment variable of the key that is set and not empty, a
\* key the file that was read has; and the built-in default.
Shown(value) == IF value.kind = "int" THEN Itoa(value.n) ELSE value.s
FlagSets(key) == settings.flagOverrides[key] \notin {Nil, Text("")}
EnvOf(key) ==
    IF settings.env[AutomaticEnv(key)] # "" THEN settings.env[AutomaticEnv(key)]
    ELSE IF BoundEnv(key) # "" THEN settings.env[BoundEnv(key)]
    ELSE ""
FileSets(key) == settings.file.state = "ok" /\ settings.file.values[key] # Nil
BuiltIn(key) ==
    CASE key = "calendar_id" -> "primary"
      [] key = "default_duration" -> "30"
      [] OTHER -> ""
HighestSource(key) ==
    IF FlagSets(key) THEN Shown(settings.flagOverrides[key])
    ELSE IF EnvOf(key) # "" THEN EnvOf(key)
    ELSE IF FileSets(key) THEN Shown(settings.file.values[key])
    ELSE BuiltIn(key)
FieldOf(cfg, key) ==
    CASE key = "credentials_path" -> cfg.CredentialsPath
      [] key = "token_path" -> cfg.TokenPath
      [] key = "calendar_id" -> cfg.CalendarID
      [] key = "default_duration" -> Itoa(cfg.DefaultDuration)
      [] key = "timezone" -> cfg.Timezone

\* C34: in the Config that Load returns each key has, whatever the other
\* keys have, the value of the highest source that sets it in the order flag
\* override, environment variable, configuration file, built-in default; a
\* flag override that is nil or the empty string sets nothing, and the key
\* keeps the value of the next source below.
C34_PriorityPerKey ==
    settings.called /\ settings.out.ok =>
        \A key \in ConfigKeys : FieldOf(settings.out.cfg, key) = HighestSource(key)

\* A call whose flag override of calendar_id is the empty string has taken
\* the calendar from the environment over the file, the token path from the
\* file, and the duration from its flag override over the environment.
C34_Witness ==
    /\ settings.called /\ settings.out.ok
    /\ settings.flagOverrides["calendar_id"] = Text("")
    /\ settings.env["GOOGLE_CALENDAR_ID"] = "env-calendar-id"
    /\ settings.file.values["calendar_id"] = Text("config-calendar-id")
    /\ settings.out.cfg.CalendarID = "env-calendar-id"
    /\ settings.out.cfg.TokenPath = "/config/token.json"
    /\ settings.flagOverrides["default_duration"] = Number(45)
    /\ settings.env["DEFAULT_DURATION"] = "60"
    /\ settings.out.cfg.DefaultDuration = 45

\* C35: a cancellation of the caller's context that comes while the flow is
\* blocked in the select ends the wait in that step, with the context's
\* error as the result and without a callback request; and every flow that
\* is blocked in the select leaves it: for a code, an error, the context, or
\* the timer of five minutes.
C35_WaitEnds ==
    /\ [][pc = "waiting" /\ ~ctx.done /\ ctx'.done =>
            /\ pc' = "returned"
            /\ result'.err = ctx'.err
            /\ requests' = requests]_vars
    /\ (pc = "waiting") ~> (pc \in {"exchange", "returned"})

\* A flow that no request reached was blocked in the select with nothing
\* ready, and has returned for the cancellation of its context.
C35_Witness ==
    /\ pc = "returned"
    /\ h.firedBeforeWait = {}
    /\ h.resolvedBy = "ctx"
    /\ result.err = "Canceled"
    /\ requests = 0

\* The step in which a call of GetToken begins.  Before it, the last call
\* has left a token that the token file holds (it was obtained and saved, or
\* came from the file), and the last operation on the token store was a
\* ClearToken that succeeded and nothing was saved since.
CallBegins == pc = "idle" /\ pc' # "idle"
LastTokenSaved ==
    /\ result.kind = "token"
    /\ tokenFile.state = "token"
    /\ tokenFile.token = Unmarshal(Marshal(result.token))
JustCleared == store.op = "clear" /\ store.ok /\ tokenFile = AbsentFile
FromCacheAtOnce ==
    /\ pc' = "returned"
    /\ h'.via = "cache"
    /\ result' = TokenResult(tokenFile.token)
    /\ h'.listeners = 0 /\ ~h'.refreshTried /\ h'.exchanges = 0

C36_WitnessCleared ==
    /\ calls = 2 /\ pc = "select" /\ h.listeners = 1
    /\ store.op = "clear" /\ store.ok
    /\ h.fileAtLoad = AbsentFile
    /\ result = NoResult
    /\ config.loaded

\* The token file is absent, may not be read, or does not parse.
LoadFails(file) ==
    file.state = "absent" \/ file.mode = WriteOnly \/ file.state = "corrupt"

\* C37: a call of GetToken that finds the token file absent, unreadable or
\* unparseable tries no refresh and goes on to the interactive flow, as it
\* does for an absent file; what it returns is the outcome of that flow,
\* never the error of the load.
C37_LoadFailureGoesToFlow ==
    pc # "idle" /\ h.via # "credentials" /\ LoadFails(h.fileAtLoad) =>
        /\ ~h.refreshTried
        /\ h.refreshErr = ""
        /\ pc \in FlowSteps \cup {"returned"}
        /\ pc = "returned" =>
              /\ h.via = "interactive"
              /\ h.listeners + (IF result.err = "ErrStartCallbackServer" THEN 1 ELSE 0) = 1
              /\ \/ result.kind = "token" /\ h.exchanges = 1
                 \/ result.err \in {"ErrStartCallbackServer", "ErrAuthenticationFailed",
                                    "Canceled", "DeadlineExceeded"}

\* A call that found a token file it may not read has returned the token of
\* its interactive flow; so has one that found a file that does not parse.
C37_Witness ==
    /\ pc = "returned" /\ h.via = "interactive" /\ result.kind = "token"
    /\ ~h.refreshTried
    /\ \/ h.fileAtLoad.state = "token" /\ h.fileAtLoad.mode = WriteOnly
       \/ h.fileAtLoad.state = "corrupt"

\* A handler for query q is blocked in a send that nothing can complete: the
\* one slot of its channel is taken and the flow has returned, so that nothing
\* receives from the channel any more.
StuckHandler(q) ==
    /\ pc = "returned"
    /\ BagIn(q, pending)
    /\ ~CanSend(HandlerTarget(q.code, q.error).chan)

\* C38: whatever requests reach the listener in a flow, with or without a
\* code, before or after the flow resolves, every handler completes its send
\* and writes its response: no handler is left blocked on a full channel that
\* nothing receives from.
C38_NoHandlerBlockedForever ==
    \A q \in BagToSet(pending) : ~StuckHandler(q)

\* The call in parse.out was made with a deciding name, the timezone argument
\* or TZ when the argument is empty, that is not the name of a zone.
UnrecognisedZone ==
    /\ parse.out.stage # "none"
    /\ DecidingName # ""
    /\ ~LoadLocation(DecidingName).ok

\* The call in parse.out failed with InvalidTimezone and tried no stage.
FailedInLocation ==
    /\ ~parse.out.ok
    /\ parse.out.err = ErrInvalidTimezone
    /\ parse.out.stage = "location"
    /\ parse.out.tried = <<>>

C39_WitnessRelative ==
    /\ parse.input = "in 2 hours"
    /\ parse.timezone = "Invalid/Timezone"
    /\ FailedInLocation
====
